---- MODULE Spec2Model ----
(***************************************************************************)
(* Model of the scheduling core of ultra-scraper: PriorityQueue,           *)
(* DeadLetterQueue and TaskQueue (src/src/queue).                          *)
(*                                                                         *)
(* JavaScript runs every handler to its next await without interleaving,   *)
(* so an action is one such run: a public method up to its first await, a  *)
(* timer callback, or the continuation of an await.                        *)
(***************************************************************************)
EXTENDS Integers, Sequences, FiniteSets, TLC

(***************************************************************************)
(* Bounds of the model.                                                    *)
(***************************************************************************)
\* enqueue calls of the stand-alone PriorityQueue
MaxEnq == 4
\* largest capacity of the stand-alone DeadLetterQueue
MaxCap == 2
\* distinct task ids handed to the stand-alone DeadLetterQueue
MaxDlqIds == 4
\* add calls between two clears of the stand-alone DeadLetterQueue
MaxDlqAdds == 4
\* task objects handed to a TaskQueue
MaxTasks == 3
\* distinct ids callers write on their tasks
NumIds == 1
\* task objects handed to a TaskQueue that is stopped or whose tasks time out
SmallTasks == 2
\* tasks in one add call
MaxBatch == 2
\* processQueue calls alive at the same time
MaxLoops == 2
\* failures (totalFailed) up to which retryFailed is called
MaxFailed == 1
\* calls a CircuitBreaker admits
MaxCbCalls == 5
\* calls of a CircuitBreaker awaiting their function at the same time
MaxCbInFlight == 2
\* reset and forceState calls on a CircuitBreaker
MaxCbOps == 2

(***************************************************************************)
(* enum TaskPriority.  A task whose priority field is absent carries       *)
(* NoPriority.                                                             *)
(***************************************************************************)
CRITICAL == 0
HIGH == 1
NORMAL == 2
LOW == 3
NoPriority == -1

\* PriorityQueue.priorities, the scan order of dequeue, peek and getAll
priorities == <<CRITICAL, HIGH, NORMAL, LOW>>

Tiers == {CRITICAL, HIGH, NORMAL, LOW}

\* the null a dequeue returns on an empty queue; object handles are >= 1
Null == 0

(***************************************************************************)
(* PriorityQueue: `queues' maps each tier to the array of the task objects *)
(* (handles) waiting in it.                                                *)
(***************************************************************************)
EmptyQueues == [p \in Tiers |-> <<>>]

\* enqueue's and add's defaulting: task.priority ?? TaskPriority.NORMAL
DefaultedPriority(p) == IF p = NoPriority THEN NORMAL ELSE p

\* a LIFO push, the mutant of PQEnqueue
PQEnqueueFront(q, h, p) == [q EXCEPT ![DefaultedPriority(p)] = <<h>> \o @]

\* enqueue(task): push on the array of the task's (defaulted) priority
PQEnqueue(q, h, p) == [q EXCEPT ![DefaultedPriority(p)] = Append(@, h)]

\* the first tier, in scan order, whose array is not empty (0 if none)
RECURSIVE FirstNonEmpty(_, _)
FirstNonEmpty(q, i) ==
  IF i > Len(priorities) THEN 0
  ELSE IF Len(q[priorities[i]]) > 0 THEN i
  ELSE FirstNonEmpty(q, i + 1)

\* dequeue()'s return value: queue.shift() of the first non-empty tier
PQHead(q) ==
  LET i == FirstNonEmpty(q, 1)
  IN  IF i = 0 THEN Null ELSE Head(q[priorities[i]])

\* the queues after dequeue()
PQRest(q) ==
  LET i == FirstNonEmpty(q, 1)
  IN  IF i = 0 THEN q ELSE [q EXCEPT ![priorities[i]] = Tail(@)]

\* size()
PQSize(q) == Len(q[CRITICAL]) + Len(q[HIGH]) + Len(q[NORMAL]) + Len(q[LOW])

\* getAll(): the tiers concatenated in scan order
PQGetAll(q) == q[CRITICAL] \o q[HIGH] \o q[NORMAL] \o q[LOW]

Range(s) == {s[i] : i \in 1..Len(s)}

(***************************************************************************)
(* The stand-alone PriorityQueue: enqueue and dequeue calls in any order.  *)
(* The k-th enqueue call passes the task object with handle k.             *)
(***************************************************************************)
VARIABLES
  pq,        \* PriorityQueue.queues
  pqPrio,    \* handle -> the priority field the caller set (or NoPriority)
  pqN,       \* number of enqueue calls so far
  pqSnap,    \* history: the handles waiting right after the last enqueue
  pqOut,     \* history: the handles dequeued since the last enqueue
  pqRet      \* history: [op, ret, sizeBefore] of the last call

pqVars == <<pq, pqPrio, pqN, pqSnap, pqOut, pqRet>>

PQInit ==
  /\ pq = EmptyQueues
  /\ pqPrio = [h \in 1..MaxEnq |-> NoPriority]
  /\ pqN = 0
  /\ pqSnap = {}
  /\ pqOut = <<>>
  /\ pqRet = [op |-> "new", ret |-> Null, sizeBefore |-> 0]

PQ_Enqueue(p) ==
  /\ pqN < MaxEnq
  /\ pqN' = pqN + 1
  /\ pqPrio' = [pqPrio EXCEPT ![pqN + 1] = p]
  /\ pq' = PQEnqueue(pq, pqN + 1, p)
  /\ pqSnap' = Range(PQGetAll(pq)) \cup {pqN + 1}
  /\ pqOut' = <<>>
  /\ pqRet' = [op |-> "enqueue", ret |-> Null, sizeBefore |-> PQSize(pq)]

PQ_Dequeue ==
  /\ pq' = PQRest(pq)
  /\ pqOut' = IF PQHead(pq) = Null THEN pqOut ELSE Append(pqOut, PQHead(pq))
  /\ pqRet' = [op |-> "dequeue", ret |-> PQHead(pq), sizeBefore |-> PQSize(pq)]
  /\ UNCHANGED <<pqPrio, pqN, pqSnap>>

(***************************************************************************)
(* DeadLetterQueue: `tasks' is a Map keyed by task id; a Map iterates in   *)
(* insertion order and set() on a present key keeps the key's place.  The  *)
(* map is the sequence of its entries [id, obj].                           *)
(***************************************************************************)
DLQIds(d) == [i \in 1..Len(d) |-> d[i].id]

DLQHas(d, id) == \E i \in 1..Len(d) : d[i].id = id

\* Map.delete(id)
DLQDelete(d, id) == SelectSeq(d, LAMBDA e : e.id # id)

\* Map.set(id, task)
DLQSet(d, e) ==
  IF DLQHas(d, e.id)
  THEN [i \in 1..Len(d) |-> IF d[i].id = e.id THEN e ELSE d[i]]
  ELSE Append(d, e)

\* add(): whether the oldest entry is evicted; with an empty map
\* keys().next().value is undefined and nothing is evicted
DLQEvicts(d, maxSize) == Len(d) >= maxSize /\ Len(d) > 0

\* an eviction of the newest entry, the mutant of DLQEvicted
DLQEvictedNewest(d, maxSize) ==
  IF DLQEvicts(d, maxSize) THEN SubSeq(d, 1, Len(d) - 1) ELSE d

\* add(): the map after the eviction step
DLQEvicted(d, maxSize) ==
  IF DLQEvicts(d, maxSize) THEN DLQDelete(d, d[1].id) ELSE d

\* add(task): the map when add returns
DLQAdd(d, maxSize, e) == DLQSet(DLQEvicted(d, maxSize), e)

\* add(task): the overflow signals it emits
DLQOverflow(d, maxSize) ==
  IF DLQEvicts(d, maxSize) THEN <<d[1].id>> ELSE <<>>

(***************************************************************************)
(* The stand-alone DeadLetterQueue of capacity dlqMax under add, remove    *)
(* and clear.  Task ids are present (truthy) strings, here 1..MaxDlqIds.   *)
(***************************************************************************)
VARIABLES
  dlq,        \* DeadLetterQueue.tasks
  dlqMax,     \* DeadLetterQueue.maxSize
  dlqSignals, \* history: task ids of the overflow signals since the last clear
  dlqAdds,    \* history: ids passed to add since the last clear
  dlqPure     \* history: no remove since the last clear

dlqVars == <<dlq, dlqMax, dlqSignals, dlqAdds, dlqPure>>

DLQInit ==
  /\ dlq = <<>>
  /\ dlqMax \in 0..MaxCap
  /\ dlqSignals = <<>>
  /\ dlqAdds = <<>>
  /\ dlqPure = TRUE

DLQ_Add(id) ==
  /\ Len(dlqAdds) < MaxDlqAdds
  /\ dlq' = DLQAdd(dlq, dlqMax, [id |-> id, obj |-> Len(dlqAdds) + 1])
  /\ dlqSignals' = dlqSignals \o DLQOverflow(dlq, dlqMax)
  /\ dlqAdds' = Append(dlqAdds, id)
  /\ UNCHANGED <<dlqMax, dlqPure>>

DLQ_Remove(id) ==
  /\ dlq' = DLQDelete(dlq, id)
  /\ dlqPure' = FALSE
  /\ UNCHANGED <<dlqMax, dlqSignals, dlqAdds>>

DLQ_Clear ==
  /\ dlq' = <<>>
  /\ dlqSignals' = <<>>
  /\ dlqAdds' = <<>>
  /\ dlqPure' = TRUE
  /\ UNCHANGED dlqMax

(***************************************************************************)
(* C2: PriorityQueue ordering.                                             *)
(***************************************************************************)
TierOf(h) == IF pqPrio[h] = NoPriority THEN NORMAL ELSE pqPrio[h]

\* tier first, then the order of the enqueue calls
Rank(h) == TierOf(h) * (MaxEnq + 1) + h

RECURSIVE SortByRank(_)
SortByRank(S) ==
  IF S = {} THEN <<>>
  ELSE LET m == CHOOSE x \in S : \A y \in S : Rank(x) <= Rank(y)
       IN  <<m>> \o SortByRank(S \ {m})

\* C2: the dequeues that follow a sequence of enqueues return the waiting
\* tasks tier by tier (CRITICAL, HIGH, NORMAL, LOW) and, inside a tier, in
\* the order they were enqueued; nothing is lost or invented; dequeue
\* returns null exactly when the queue is empty.
C2_PriorityOrder ==
  /\ Len(pqOut) <= Cardinality(pqSnap)
  /\ pqOut = SubSeq(SortByRank(pqSnap), 1, Len(pqOut))
  /\ Range(PQGetAll(pq)) = pqSnap \ Range(pqOut)
  /\ PQSize(pq) = Cardinality(pqSnap) - Len(pqOut)
  /\ pqRet.op = "dequeue" => (pqRet.ret = Null <=> pqRet.sizeBefore = 0)

\* a queue drained after four or more enqueues of three or more tiers, two
\* tasks sharing a tier, some task overtaking an earlier one, and a last
\* dequeue on the empty queue
C2_Witness ==
  /\ PQSize(pq) = 0
  /\ Len(pqOut) >= 4
  /\ Cardinality({TierOf(pqOut[i]) : i \in 1..Len(pqOut)}) >= 3
  /\ \E i, j \in 1..Len(pqOut) : i < j /\ TierOf(pqOut[i]) = TierOf(pqOut[j])
  /\ \E i, j \in 1..Len(pqOut) : i < j /\ pqOut[i] > pqOut[j]
  /\ pqRet.op = "dequeue" /\ pqRet.ret = Null

(***************************************************************************)
(* C6, C7: DeadLetterQueue capacity and eviction order.                    *)
(***************************************************************************)
Distinct(s) == \A i, j \in 1..Len(s) : i # j => s[i] # s[j]

\* C6: the number of stored tasks never exceeds the configured capacity,
\* for every capacity >= 0.
C6_CapacityNeverExceeded == Len(dlq) <= dlqMax

\* C7: after n adds of distinct ids to an empty queue of capacity k,
\* 1 <= k < n, the queue holds the last k ids in insertion order and the
\* overflow signals named, in order, the n - k ids added first.
C7_EvictionOrder ==
  (dlqPure /\ Distinct(dlqAdds) /\ dlqMax >= 1 /\ Len(dlqAdds) > dlqMax) =>
    /\ DLQIds(dlq) = SubSeq(dlqAdds, Len(dlqAdds) - dlqMax + 1, Len(dlqAdds))
    /\ dlqSignals = SubSeq(dlqAdds, 1, Len(dlqAdds) - dlqMax)

\* two or more evictions from a queue of capacity two or more
C7_Witness ==
  /\ dlqPure /\ Distinct(dlqAdds)
  /\ dlqMax >= 2
  /\ Len(dlqAdds) >= dlqMax + 2
  /\ Len(dlqSignals) >= 2

(***************************************************************************)
(* TaskQueue.  Task objects are the handles 1..MaxTasks; the k-th task     *)
(* object a caller passes to add has handle k.  `task' holds the fields    *)
(* the queue reads and writes on each object.                              *)
(***************************************************************************)
\* an absent (or empty) task id
NoId == 0

\* ids a caller may write on a task: 1..NumIds
SuppliedIds == 1..NumIds

\* generateTaskId(): a fresh id, different from every other id
GeneratedId(h) == NumIds + h

Handles == 1..MaxTasks

\* the arrays of one to MaxBatch tasks with ids and priorities from the
\* given sets
Batches(ids, prios) ==
  UNION {[1..n -> [id : ids, priority : prios]] : n \in 1..MaxBatch}

\* the arrays of one such task
Singles(ids, prios) == [1..1 -> [id : ids, priority : prios]]

VARIABLES
  config,         \* TaskQueue.config
  queues,         \* TaskQueue.priorityQueue.queues
  deadLetter,     \* TaskQueue.deadLetterQueue.tasks
  activeTasks,    \* TaskQueue.activeTasks, a Set of task ids
  completedTasks, \* keys of TaskQueue.completedTasks
  failedTasks,    \* keys of TaskQueue.failedTasks
  isProcessing,   \* TaskQueue.isProcessing
  isPaused,       \* TaskQueue.isPaused
  metrics,        \* TaskQueue.metrics
  task,           \* handle -> [id, priority, status, retries, lastError]
  nAdded,         \* number of task objects add has accepted
  proc,           \* handle -> "exec" while processTask awaits the race
  zombie,         \* handle -> executions that timed out and still run
  retryTimer,     \* handle -> a re-enqueue timer of handleTaskError is armed
  loops,          \* processQueue calls suspended in a sleep
  stopWait,       \* a stop({graceful: true}) call is polling activeTasks
  given,          \* history: handle -> the priority the caller wrote
  nRetrying,      \* history: handle -> times the task became RETRYING
  stopSnap,       \* history: tasks in processTask when stop was called
  stopStarted,    \* history: a task was started while that stop call waited
  stopClean,      \* history: no start or resume call while it waited
  ev              \* history: the last step [kind, h, ret, n]

tqVars ==
  <<config, queues, deadLetter, activeTasks, completedTasks, failedTasks,
    isProcessing, isPaused, metrics, task, nAdded, proc, zombie, retryTimer,
    loops, stopWait, given, nRetrying, stopSnap, stopStarted, stopClean,
    ev>>

NewTask ==
  [id |-> NoId, priority |-> NoPriority, status |-> "new", retries |-> 0,
   lastError |-> "none"]

Event(kind, h, ret, n) == [kind |-> kind, h |-> h, ret |-> ret, n |-> n]

\* the state after the constructor
TQInit ==
  /\ queues = EmptyQueues
  /\ deadLetter = <<>>
  /\ activeTasks = {}
  /\ completedTasks = {}
  /\ failedTasks = {}
  /\ isProcessing = FALSE
  /\ isPaused = FALSE
  /\ metrics = [totalAdded |-> 0, totalProcessed |-> 0, totalFailed |-> 0,
                totalRetried |-> 0, peakConcurrency |-> 0]
  /\ task = [h \in Handles |-> NewTask]
  /\ nAdded = 0
  /\ proc = [h \in Handles |-> "idle"]
  /\ zombie = [h \in Handles |-> 0]
  /\ retryTimer = [h \in Handles |-> FALSE]
  /\ loops = 0
  /\ stopWait = FALSE
  /\ given = [h \in Handles |-> NoPriority]
  /\ nRetrying = [h \in Handles |-> 0]
  /\ stopSnap = {}
  /\ stopStarted = FALSE
  /\ stopClean = TRUE
  /\ ev = Event("new", Null, FALSE, 0)

\* the deadLetterQueue's capacity: new DeadLetterQueue(config.maxRetries)
DeadLetterCapacity == config.maxRetries

\* the tasks whose processTask has started and not yet released its slot
Processing == {h \in Handles : proc[h] = "exec"}

Max(a, b) == IF a >= b THEN a ELSE b

(***************************************************************************)
(* processQueue, from the test of its while loop to its next sleep.        *)
(***************************************************************************)
\* the loop's iterations that call processTask: tasks are dequeued and
\* started one after the other until activeTasks.size reaches concurrency
\* or the queue is empty.  processTask adds the task's id to activeTasks
\* before its first await.
RECURSIVE StartTasks(_, _, _)
StartTasks(q, act, tk) ==
  IF Cardinality(act) >= config.concurrency \/ PQHead(q) = Null
  THEN [q |-> q, act |-> act, started |-> {}]
  ELSE LET h == PQHead(q)
           r == StartTasks(PQRest(q), act \cup {tk[h].id}, tk)
       IN  [q |-> r.q, act |-> r.act, started |-> r.started \cup {h}]

\* one run of the loop of a processQueue call, `fresh' for a new call and
\* not for one waking from its sleep.  running is the while test, q, tk and
\* m are the queues, the tasks and the metrics as the caller leaves them.
LoopRun(running, fresh, q, tk, m) ==
  IF ~running
  THEN \* the while test fails: the call returns
       /\ loops' = IF fresh THEN loops ELSE loops - 1
       /\ queues' = q
       /\ task' = tk
       /\ metrics' = m
       /\ UNCHANGED <<activeTasks, proc, stopStarted>>
  ELSE LET r == StartTasks(q, activeTasks, tk)
       IN  /\ loops' = IF fresh THEN loops + 1 ELSE loops
           /\ queues' = r.q
           /\ activeTasks' = r.act
           /\ proc' = [h \in Handles |->
                         IF h \in r.started THEN "exec" ELSE proc[h]]
           /\ task' = [h \in Handles |->
                         IF h \in r.started
                         THEN [tk[h] EXCEPT !.status = "processing"]
                         ELSE tk[h]]
           /\ metrics' = [m EXCEPT !.peakConcurrency =
                            IF r.started = {} THEN @
                            ELSE Max(@, Cardinality(r.act))]
           /\ stopStarted' = (stopStarted \/ (stopWait /\ r.started # {}))

\* whether a run of the loop ends with the loop going idle: the queue is
\* empty and no task is active
GoesIdle(running, q, tk) ==
  LET r == StartTasks(q, activeTasks, tk)
  IN  /\ running
      /\ Cardinality(r.act) < config.concurrency
      /\ r.act = {}

Step == Event("step", Null, FALSE, 0)

(***************************************************************************)
(* add(task | task[])                                                      *)
(***************************************************************************)
\* JavaScript's !x on an optional number: absent or 0
Falsy(p) == p = NoPriority \/ p = 0

\* add's defaulting of the priority: if (!t.priority) t.priority = NORMAL
AddPriority(p) == IF Falsy(p) THEN NORMAL ELSE p

\* add's loop over the tasks of one call, from the i-th on; it throws
\* (full) at the first task that finds the queue at maxQueueSize
RECURSIVE AddLoop(_, _, _, _, _, _)
AddLoop(batch, i, q, tk, gv, n) ==
  IF i > Len(batch)
  THEN [q |-> q, task |-> tk, given |-> gv, n |-> n, full |-> FALSE]
  ELSE IF PQSize(q) >= config.maxQueueSize
  THEN [q |-> q, task |-> tk, given |-> gv, n |-> n, full |-> TRUE]
  ELSE LET h == n + 1
           t == [id |-> IF batch[i].id = NoId THEN GeneratedId(h)
                        ELSE batch[i].id,
                 priority |-> AddPriority(batch[i].priority),
                 status |-> "pending",
                 retries |-> 0,
                 lastError |-> "none"]
       IN  AddLoop(batch, i + 1, PQEnqueue(q, h, t.priority),
                   [tk EXCEPT ![h] = t],
                   [gv EXCEPT ![h] = batch[i].priority], h)

Add(batch, limit) ==
  /\ nAdded + Len(batch) <= limit
  /\ LET r == AddLoop(batch, 1, queues, task, given, nAdded)
         m == [metrics EXCEPT !.totalAdded = @ + (r.n - nAdded)]
         autoStart == ~r.full /\ ~isProcessing /\ ~isPaused
     IN  /\ autoStart => loops < MaxLoops
         /\ nAdded' = r.n
         /\ given' = r.given
         /\ LoopRun(autoStart, TRUE, r.q, r.task, m)
         /\ isProcessing' =
              IF autoStart THEN ~GoesIdle(TRUE, r.q, r.task) ELSE isProcessing
         /\ ev' = IF r.full THEN Event("addRejected", Null, TRUE, r.n - nAdded)
                  ELSE Step
  /\ UNCHANGED <<config, deadLetter, completedTasks, failedTasks, isPaused,
                 zombie, retryTimer, stopWait, nRetrying, stopSnap, stopClean>>

(***************************************************************************)
(* start, pause, resume, stop                                              *)
(***************************************************************************)
Start ==
  /\ ~isProcessing
  /\ loops < MaxLoops
  /\ isPaused' = FALSE
  /\ LoopRun(TRUE, TRUE, queues, task, metrics)
  /\ isProcessing' = ~GoesIdle(TRUE, queues, task)
  /\ stopClean' = (stopClean /\ ~stopWait)
  /\ ev' = Step
  /\ UNCHANGED <<config, deadLetter, completedTasks, failedTasks, nAdded,
                 zombie, retryTimer, stopWait, given, nRetrying, stopSnap>>

Pause ==
  /\ ~isPaused
  /\ isPaused' = TRUE
  /\ ev' = Step
  /\ UNCHANGED <<config, queues, deadLetter, activeTasks, completedTasks,
                 failedTasks, isProcessing, metrics, task, nAdded, proc,
                 zombie, retryTimer, loops, stopWait, given, nRetrying,
                 stopSnap, stopStarted, stopClean>>

Resume ==
  /\ isPaused
  /\ isProcessing => loops < MaxLoops
  /\ isPaused' = FALSE
  /\ LoopRun(isProcessing, TRUE, queues, task, metrics)
  /\ isProcessing' = (isProcessing /\ ~GoesIdle(isProcessing, queues, task))
  /\ stopClean' = (stopClean /\ ~stopWait)
  /\ ev' = Event("resume", Null, isProcessing, PQSize(queues))
  /\ UNCHANGED <<config, deadLetter, completedTasks, failedTasks, nAdded,
                 zombie, retryTimer, stopWait, given, nRetrying, stopSnap>>

\* stop(options) up to its first sleep, or to its return when it does not
\* have to wait
Stop(graceful) ==
  /\ ~stopWait
  /\ isPaused' = TRUE
  /\ stopSnap' = Processing
  /\ stopStarted' = FALSE
  /\ stopClean' = TRUE
  /\ IF graceful /\ activeTasks # {}
     THEN /\ stopWait' = TRUE
          /\ ev' = Step
          /\ UNCHANGED isProcessing
     ELSE /\ stopWait' = FALSE
          /\ isProcessing' = FALSE
          /\ ev' = Event("stopReturned", Null, graceful, 0)
  /\ UNCHANGED <<config, queues, deadLetter, activeTasks, completedTasks,
                 failedTasks, metrics, task, nAdded, proc, zombie, retryTimer,
                 loops, given, nRetrying>>

\* stop's wait loop finds activeTasks empty, and stop returns
StopPoll ==
  /\ stopWait
  /\ activeTasks = {}
  /\ stopWait' = FALSE
  /\ isProcessing' = FALSE
  /\ ev' = Event("stopReturned", Null, TRUE, 0)
  /\ UNCHANGED <<config, queues, deadLetter, activeTasks, completedTasks,
                 failedTasks, isPaused, metrics, task, nAdded, proc, zombie,
                 retryTimer, loops, given, nRetrying, stopSnap, stopStarted,
                 stopClean>>

\* a loop that does not test isPaused, the mutant of LoopWake
LoopWakeIgnoresPause ==
  /\ loops > 0
  /\ LoopRun(isProcessing, FALSE, queues, task, metrics)
  /\ isProcessing' = (isProcessing /\ ~GoesIdle(isProcessing, queues, task))
  /\ ev' = Step
  /\ UNCHANGED <<config, deadLetter, completedTasks, failedTasks, isPaused,
                 nAdded, zombie, retryTimer, stopWait, given, nRetrying,
                 stopSnap, stopClean>>

\* a processQueue call wakes from its sleep
LoopWake ==
  /\ loops > 0
  /\ LoopRun(isProcessing /\ ~isPaused, FALSE, queues, task, metrics)
  /\ isProcessing' =
       (isProcessing /\ ~GoesIdle(isProcessing /\ ~isPaused, queues, task))
  /\ ev' = Step
  /\ UNCHANGED <<config, deadLetter, completedTasks, failedTasks, isPaused,
                 nAdded, zombie, retryTimer, stopWait, given, nRetrying,
                 stopSnap, stopClean>>

(***************************************************************************)
(* processTask after the race of executeWithTimeout has settled.           *)
(***************************************************************************)
\* handleTaskError(task, error), then processTask's finally
Fail(h, error) ==
  LET retries == task[h].retries + 1
      retry == retries < config.maxRetries
  IN  /\ task' = [task EXCEPT ![h] =
                    [@ EXCEPT !.retries = retries,
                              !.lastError = error,
                              !.status = IF retry THEN "retrying"
                                         ELSE "failed"]]
      /\ retryTimer' = [retryTimer EXCEPT ![h] = retry]
      /\ nRetrying' = [nRetrying EXCEPT ![h] = IF retry THEN @ + 1 ELSE @]
      /\ metrics' = IF retry
                    THEN [metrics EXCEPT !.totalRetried = @ + 1]
                    ELSE [metrics EXCEPT !.totalFailed = @ + 1]
      /\ failedTasks' = IF retry THEN failedTasks
                        ELSE failedTasks \cup {task[h].id}
      /\ deadLetter' = IF ~retry /\ config.enableDeadLetter
                       THEN DLQAdd(deadLetter, DeadLetterCapacity,
                                   [id |-> task[h].id, obj |-> h])
                       ELSE deadLetter
      /\ activeTasks' = activeTasks \ {task[h].id}
      /\ proc' = [proc EXCEPT ![h] = "idle"]

\* task.execute() resolves before the timer of the race
Resolve(h) ==
  /\ proc[h] = "exec"
  /\ task' = [task EXCEPT ![h].status = "completed"]
  /\ completedTasks' = completedTasks \cup {task[h].id}
  /\ metrics' = [metrics EXCEPT !.totalProcessed = @ + 1]
  /\ activeTasks' = activeTasks \ {task[h].id}
  /\ proc' = [proc EXCEPT ![h] = "idle"]
  /\ ev' = Step
  /\ UNCHANGED <<config, queues, deadLetter, failedTasks, isProcessing,
                 isPaused, nAdded, zombie, retryTimer, loops, stopWait,
                 given, nRetrying, stopSnap, stopStarted, stopClean>>

\* task.execute() rejects before the timer of the race
Reject(h) ==
  /\ proc[h] = "exec"
  /\ Fail(h, "error")
  /\ ev' = Step
  /\ UNCHANGED <<config, queues, completedTasks, isProcessing, isPaused,
                 nAdded, zombie, loops, stopWait, given, stopSnap,
                 stopStarted, stopClean>>

\* the timer of the race fires first; the execution goes on unobserved
Timeout(h) ==
  /\ proc[h] = "exec"
  /\ Fail(h, "timeout")
  /\ zombie' = [zombie EXCEPT ![h] = @ + 1]
  /\ ev' = Event("timeout", h, FALSE, 0)
  /\ UNCHANGED <<config, queues, completedTasks, isProcessing, isPaused,
                 nAdded, loops, stopWait, given, stopSnap, stopStarted,
                 stopClean>>

\* a late settlement that is taken for the task's result, the mutant of
\* LateSettle
LateSettleCompletes(h) ==
  /\ zombie[h] > 0
  /\ zombie' = [zombie EXCEPT ![h] = @ - 1]
  /\ task' = [task EXCEPT ![h].status = "completed"]
  /\ completedTasks' = completedTasks \cup {task[h].id}
  /\ metrics' = [metrics EXCEPT !.totalProcessed = @ + 1]
  /\ ev' = Event("lateSettle", h, FALSE, 0)
  /\ UNCHANGED <<config, queues, deadLetter, activeTasks, failedTasks,
                 isProcessing, isPaused, nAdded, proc, retryTimer, loops,
                 stopWait, given, nRetrying, stopSnap, stopStarted, stopClean>>

\* an execution that had timed out settles: the race is already decided
LateSettle(h) ==
  /\ zombie[h] > 0
  /\ zombie' = [zombie EXCEPT ![h] = @ - 1]
  /\ ev' = Event("lateSettle", h, FALSE, 0)
  /\ UNCHANGED <<config, queues, deadLetter, activeTasks, completedTasks,
                 failedTasks, isProcessing, isPaused, metrics, task, nAdded,
                 proc, retryTimer, loops, stopWait, given, nRetrying,
                 stopSnap, stopStarted, stopClean>>

\* the setTimeout of handleTaskError: priorityQueue.enqueue(task)
RetryTimerFire(h) ==
  /\ retryTimer[h]
  /\ retryTimer' = [retryTimer EXCEPT ![h] = FALSE]
  /\ queues' = PQEnqueue(queues, h, task[h].priority)
  /\ ev' = Step
  /\ UNCHANGED <<config, deadLetter, activeTasks, completedTasks,
                 failedTasks, isProcessing, isPaused, metrics, task, nAdded,
                 proc, zombie, loops, stopWait, given, nRetrying, stopSnap,
                 stopStarted, stopClean>>

(***************************************************************************)
(* cancel(taskId)                                                          *)
(***************************************************************************)
\* findById(taskId): the first task with that id, tier by tier
PQFindById(q, id, tk) ==
  LET all == PQGetAll(q)
      hits == {i \in 1..Len(all) : tk[all[i]].id = id}
  IN  IF hits = {} THEN Null
      ELSE all[CHOOSE i \in hits : \A j \in hits : i <= j]

\* remove(taskId): the queues without the first task with that id
PQRemove(q, id, tk) ==
  LET h == PQFindById(q, id, tk)
  IN  [p \in Tiers |-> SelectSeq(q[p], LAMBDA x : x # h)]

\* every id a task of the model may carry
AllIds == SuppliedIds \cup {GeneratedId(h) : h \in Handles}

Cancel(id) ==
  /\ queues' = PQRemove(queues, id, task)
  /\ ev' = Event("cancel", PQFindById(queues, id, task),
                 PQFindById(queues, id, task) # Null, 0)
  /\ UNCHANGED <<config, deadLetter, activeTasks, completedTasks,
                 failedTasks, isProcessing, isPaused, metrics, task, nAdded,
                 proc, zombie, retryTimer, loops, stopWait, given, nRetrying,
                 stopSnap, stopStarted, stopClean>>

(***************************************************************************)
(* updatePriority(taskId, priority)                                        *)
(***************************************************************************)
\* enqueue(task) for each task of an array, in the array's order
RECURSIVE EnqueueAll(_, _, _)
EnqueueAll(all, q, tk) ==
  IF all = <<>> THEN q
  ELSE EnqueueAll(Tail(all), PQEnqueue(q, Head(all), tk[Head(all)].priority),
                  tk)

\* reorder(): getAll(), clear(), and every task enqueued again
PQReorder(q, tk) == EnqueueAll(PQGetAll(q), EmptyQueues, tk)

UpdatePriority(id, priority) ==
  LET h == PQFindById(queues, id, task)
      tk == [task EXCEPT ![h].priority = priority]
  IN  /\ IF h = Null
         THEN UNCHANGED <<task, queues>>
         ELSE /\ task' = tk
              /\ queues' = PQReorder(queues, tk)
      /\ ev' = Event("updatePriority", h, h # Null, priority)
      /\ UNCHANGED <<config, deadLetter, activeTasks, completedTasks,
                     failedTasks, isProcessing, isPaused, metrics, nAdded,
                     proc, zombie, retryTimer, loops, stopWait, given,
                     nRetrying, stopSnap, stopStarted, stopClean>>

(***************************************************************************)
(* retryFailed(taskId?) and clear(options)                                 *)
(***************************************************************************)
\* DeadLetterQueue.get(taskId): the task object stored under the id
DLQGet(d, id) ==
  IF DLQHas(d, id)
  THEN d[CHOOSE i \in 1..Len(d) : d[i].id = id].obj
  ELSE Null

\* retryFailed's re-enqueueing of the first n entries of a dead-letter map:
\* retries = 0, status = PENDING, priorityQueue.enqueue(task)
RECURSIVE Requeued(_, _, _, _)
Requeued(d, n, q, tk) ==
  IF n = 0 THEN [q |-> q, task |-> tk]
  ELSE LET r == Requeued(d, n - 1, q, tk)
           h == d[n].obj
       IN  [q |-> PQEnqueue(r.q, h, r.task[h].priority),
            task |-> [r.task EXCEPT ![h].retries = 0,
                                    ![h].status = "pending"]]

\* retryFailed(taskId) with a task id
RetryFailed(id) ==
  LET h == DLQGet(deadLetter, id)
  IN  /\ metrics.totalFailed <= MaxFailed
      /\ IF h = Null
         THEN UNCHANGED <<task, queues, deadLetter>>
         ELSE /\ task' = [task EXCEPT ![h].retries = 0,
                                      ![h].status = "pending"]
              /\ queues' = PQEnqueue(queues, h, task[h].priority)
              /\ deadLetter' = DLQDelete(deadLetter, id)
      /\ ev' = Event("retryFailed", h, h # Null, 0)
      /\ UNCHANGED <<config, activeTasks, completedTasks, failedTasks,
                     isProcessing, isPaused, metrics, nAdded, proc, zombie,
                     retryTimer, loops, stopWait, given, nRetrying, stopSnap,
                     stopStarted, stopClean>>

\* retryFailed() without an id: every dead-lettered task, in map order
RetryFailedAll ==
  LET r == Requeued(deadLetter, Len(deadLetter), queues, task)
  IN  /\ metrics.totalFailed <= MaxFailed
      /\ task' = r.task
      /\ queues' = r.q
      /\ deadLetter' = <<>>
      /\ ev' = Event("retryFailed", Null, Len(deadLetter) > 0, Len(deadLetter))
      /\ UNCHANGED <<config, activeTasks, completedTasks, failedTasks,
                     isProcessing, isPaused, metrics, nAdded, proc, zombie,
                     retryTimer, loops, stopWait, given, nRetrying, stopSnap,
                     stopStarted, stopClean>>

\* the options of clear, each defaulting to true
ClearOptions ==
  [clearPending : BOOLEAN, clearCompleted : BOOLEAN, clearFailed : BOOLEAN]

Clear(opts) ==
  /\ queues' = IF opts.clearPending THEN EmptyQueues ELSE queues
  /\ completedTasks' = IF opts.clearCompleted THEN {} ELSE completedTasks
  /\ failedTasks' = IF opts.clearFailed THEN {} ELSE failedTasks
  /\ deadLetter' = IF opts.clearFailed THEN <<>> ELSE deadLetter
  /\ ev' = Event("clear", Null, FALSE, 0)
  /\ UNCHANGED <<config, activeTasks, isProcessing, isPaused, metrics, task,
                 nAdded, proc, zombie, retryTimer, loops, stopWait, given,
                 nRetrying, stopSnap, stopStarted, stopClean>>

(***************************************************************************)
(* CircuitBreaker.  A call of execute(fn) is two runs: the call up to      *)
(* `await fn()', and the continuation that handles fn's outcome.  The      *)
(* timers armed by open() all last config.timeout, so they fire in the     *)
(* order they were armed; open() overwrites this.openTimer without         *)
(* clearing the timer it referenced.                                       *)
(***************************************************************************)
CircuitStates == {"closed", "open", "half_open"}

VARIABLES
  cbConfig,           \* [failureThreshold, successThreshold, halfOpenMaxAttempts]
  cbState,            \* CircuitBreaker.state
  cbMetrics,          \* CircuitBreaker.metrics
  halfOpenAttempts,   \* CircuitBreaker.halfOpenAttempts
  cbOpenTimers,       \* armed timers of open(), oldest first, each with the
                      \* opening (cbEpoch) that armed it
  openTimer,          \* the timer this.openTimer refers to is armed: it is
                      \* the last of cbOpenTimers
  resetTimer,         \* the timer of scheduleReset is armed
  cbInFlight,         \* calls of execute awaiting fn()
  cbCalls,            \* history: calls of execute that were admitted
  cbOps,              \* history: calls of reset and forceState
  cbEpoch,            \* history: times the breaker became OPEN
  cbClosedRun,        \* history: failed calls in a row while CLOSED
  cbHalfRun,          \* history: successful calls in a row since HALF_OPEN
  cbAdmitted,         \* history: calls admitted in this HALF_OPEN period
  cbEv                \* history: the last step [kind, from]

cbVars ==
  <<cbConfig, cbState, cbMetrics, halfOpenAttempts, cbOpenTimers, openTimer,
    resetTimer, cbInFlight, cbCalls, cbOps, cbEpoch, cbClosedRun, cbHalfRun,
    cbAdmitted, cbEv>>

NewMetrics ==
  [totalRequests |-> 0, successfulRequests |-> 0, failedRequests |-> 0,
   consecutiveFailures |-> 0, consecutiveSuccesses |-> 0, stateChanges |-> 0]

\* the state after the constructor
CBInit ==
  /\ cbState = "closed"
  /\ cbMetrics = NewMetrics
  /\ halfOpenAttempts = 0
  /\ cbOpenTimers = <<>>
  /\ openTimer = FALSE
  /\ resetTimer = FALSE
  /\ cbInFlight = 0
  /\ cbCalls = 0
  /\ cbOps = 0
  /\ cbEpoch = 0
  /\ cbClosedRun = 0
  /\ cbHalfRun = 0
  /\ cbAdmitted = 0
  /\ cbEv = [kind |-> "new", from |-> "closed", epoch |-> 0]

\* the history variables after a step that takes the breaker from cbState
\* to s: an opening is counted, and the runs restart with the state (the
\* run of successes is kept over the step that closes the breaker)
Histories(s, closedRun, halfRun, admitted) ==
  /\ cbEpoch' = IF s = "open" /\ cbState # "open" THEN cbEpoch + 1 ELSE cbEpoch
  /\ cbClosedRun' = IF s = cbState THEN closedRun ELSE 0
  /\ cbHalfRun' = IF cbState = "half_open" /\ s \in {"half_open", "closed"}
                  THEN halfRun ELSE 0
  /\ cbAdmitted' = IF s = cbState THEN admitted ELSE 0

\* open(): no effect when already OPEN; else OPEN, and a timer is armed
Open(m) ==
  IF cbState = "open"
  THEN /\ cbState' = cbState
       /\ cbMetrics' = m
       /\ UNCHANGED <<halfOpenAttempts, cbOpenTimers, openTimer>>
  ELSE /\ cbState' = "open"
       /\ cbMetrics' = [m EXCEPT !.stateChanges = @ + 1]
       /\ halfOpenAttempts' = 0
       /\ cbOpenTimers' = Append(cbOpenTimers, cbEpoch + 1)
       /\ openTimer' = TRUE

\* close(): no effect when already CLOSED; else CLOSED, and the reset
\* timer is (re)armed
Close(m) ==
  IF cbState = "closed"
  THEN /\ cbState' = cbState
       /\ cbMetrics' = m
       /\ UNCHANGED <<halfOpenAttempts, resetTimer>>
  ELSE /\ cbState' = "closed"
       /\ cbMetrics' = [m EXCEPT !.stateChanges = @ + 1,
                                 !.consecutiveFailures = 0]
       /\ halfOpenAttempts' = 0
       /\ resetTimer' = TRUE

\* a check that lets calls through while OPEN, a mutant of Rejects
RejectsOnlyAtLimit ==
  /\ cbState = "half_open"
  /\ halfOpenAttempts >= cbConfig.halfOpenMaxAttempts

\* a check without the HALF_OPEN limit, a mutant of Rejects
RejectsOnlyOpen == cbState = "open"

\* execute(fn): whether the call is rejected with CircuitBreakerOpenError
Rejects ==
  \/ cbState = "open"
  \/ /\ cbState = "half_open"
     /\ halfOpenAttempts >= cbConfig.halfOpenMaxAttempts

CbEvent(kind, epoch) == [kind |-> kind, from |-> cbState, epoch |-> epoch]

\* execute(fn) up to `await fn()': rejected, or admitted with fn invoked
Execute ==
  IF Rejects
  THEN /\ cbEv' = CbEvent("rejected", 0)
       /\ UNCHANGED <<cbConfig, cbState, cbMetrics, halfOpenAttempts,
                      cbOpenTimers, openTimer, resetTimer, cbInFlight,
                      cbCalls, cbOps, cbEpoch, cbClosedRun, cbHalfRun,
                      cbAdmitted>>
  ELSE /\ cbCalls < MaxCbCalls
       /\ cbInFlight < MaxCbInFlight
       /\ halfOpenAttempts' = IF cbState = "half_open"
                              THEN halfOpenAttempts + 1 ELSE halfOpenAttempts
       /\ cbMetrics' = [cbMetrics EXCEPT !.totalRequests = @ + 1]
       /\ cbInFlight' = cbInFlight + 1
       /\ cbCalls' = cbCalls + 1
       /\ cbAdmitted' = IF cbState = "half_open"
                        THEN cbAdmitted + 1 ELSE cbAdmitted
       /\ cbEv' = CbEvent("admitted", 0)
       /\ UNCHANGED <<cbConfig, cbState, cbOpenTimers, openTimer,
                      resetTimer, cbOps, cbEpoch, cbClosedRun, cbHalfRun>>

\* a test that closes on the first success, the mutant of EnoughSuccesses
AnySuccess(m) == m.consecutiveSuccesses >= 1

\* onSuccess's test in HALF_OPEN: enough successes to close the circuit
EnoughSuccesses(m) == m.consecutiveSuccesses >= cbConfig.successThreshold

\* fn() resolved: onSuccess()
OnSuccess ==
  /\ cbInFlight > 0
  /\ cbInFlight' = cbInFlight - 1
  /\ LET m == [cbMetrics EXCEPT !.successfulRequests = @ + 1,
                                !.consecutiveSuccesses = @ + 1,
                                !.consecutiveFailures = 0]
         run == IF cbState = "half_open" THEN cbHalfRun + 1 ELSE 0
     IN  IF cbState = "half_open" /\ EnoughSuccesses(m)
         THEN /\ Close(m)
              /\ Histories("closed", 0, run, cbAdmitted)
         ELSE /\ cbState' = cbState
              /\ cbMetrics' = m
              /\ UNCHANGED <<halfOpenAttempts, resetTimer>>
              /\ Histories(cbState, 0, run, cbAdmitted)
  /\ cbEv' = CbEvent("success", 0)
  /\ UNCHANGED <<cbConfig, cbOpenTimers, openTimer, cbCalls, cbOps>>

\* fn() rejected: onFailure()
OnFailure ==
  /\ cbInFlight > 0
  /\ cbInFlight' = cbInFlight - 1
  /\ LET m == [cbMetrics EXCEPT !.failedRequests = @ + 1,
                                !.consecutiveFailures = @ + 1,
                                !.consecutiveSuccesses = 0]
         run == IF cbState = "closed" THEN cbClosedRun + 1 ELSE 0
     IN  IF \/ cbState = "half_open"
            \/ /\ cbState = "closed"
               /\ m.consecutiveFailures >= cbConfig.failureThreshold
         THEN /\ Open(m)
              /\ Histories("open", run, 0, cbAdmitted)
         ELSE /\ cbState' = cbState
              /\ cbMetrics' = m
              /\ UNCHANGED <<halfOpenAttempts, cbOpenTimers, openTimer>>
              /\ Histories(cbState, run, 0, cbAdmitted)
  /\ cbEv' = CbEvent("failure", 0)
  /\ UNCHANGED <<cbConfig, resetTimer, cbCalls, cbOps>>

\* the oldest timer of open() fires: halfOpen()
HalfOpen ==
  /\ Len(cbOpenTimers) > 0
  /\ cbOpenTimers' = Tail(cbOpenTimers)
  /\ openTimer' = (openTimer /\ Len(cbOpenTimers) > 1)
  /\ cbState' = "half_open"
  /\ cbMetrics' = [cbMetrics EXCEPT !.stateChanges = @ + 1,
                                    !.consecutiveSuccesses = 0]
  /\ halfOpenAttempts' = 0
  /\ Histories("half_open", cbClosedRun, cbHalfRun, cbAdmitted)
  /\ cbEv' = CbEvent("halfOpen", Head(cbOpenTimers))
  /\ UNCHANGED <<cbConfig, resetTimer, cbInFlight, cbCalls, cbOps>>

\* the timer of scheduleReset fires
ScheduleReset ==
  /\ resetTimer
  /\ resetTimer' = FALSE
  /\ cbMetrics' = IF cbState = "closed"
                  THEN [cbMetrics EXCEPT !.consecutiveFailures = 0,
                                         !.consecutiveSuccesses = 0]
                  ELSE cbMetrics
  /\ cbEv' = CbEvent("metricsReset", 0)
  /\ UNCHANGED <<cbConfig, cbState, halfOpenAttempts, cbOpenTimers,
                 openTimer, cbInFlight, cbCalls, cbOps, cbEpoch, cbClosedRun,
                 cbHalfRun, cbAdmitted>>

\* forceState(state)
ForceState(s) ==
  /\ cbOps < MaxCbOps
  /\ cbOps' = cbOps + 1
  /\ cbState' = s
  /\ cbMetrics' = [cbMetrics EXCEPT !.stateChanges = @ + 1]
  /\ Histories(s, cbClosedRun, cbHalfRun, cbAdmitted)
  /\ cbEv' = CbEvent("forceState", 0)
  /\ UNCHANGED <<cbConfig, halfOpenAttempts, cbOpenTimers, openTimer,
                 resetTimer, cbInFlight, cbCalls>>

\* reset(): clearTimeout reaches only the timer this.openTimer refers to
CbReset ==
  /\ cbOps < MaxCbOps
  /\ cbOps' = cbOps + 1
  /\ cbMetrics' = NewMetrics
  /\ cbOpenTimers' = IF openTimer
                     THEN SubSeq(cbOpenTimers, 1, Len(cbOpenTimers) - 1)
                     ELSE cbOpenTimers
  /\ openTimer' = FALSE
  /\ resetTimer' = FALSE
  /\ cbState' = "closed"
  /\ halfOpenAttempts' = 0
  /\ Histories("closed", 0, 0, 0)
  /\ cbEv' = CbEvent("reset", 0)
  /\ UNCHANGED <<cbConfig, cbInFlight, cbCalls>>

\* ---------------------------------------------------------------------
\* RateLimiter (src/unnamed/part_012).  Times are in ms.  Token counts are
\* kept in thousandths of a token, so that elapsed / 1000 * refillRate is
\* the integer elapsed * refillRate.  The limiter is configured through
\* requestsPerSecond (and burst); adaptive limiting is off.
\* ---------------------------------------------------------------------

\* the greatest number of acquire calls
MaxRlCalls == 3

\* the greatest number of steps of the clock
MaxAdvances == 3

\* the greatest number of reset calls
MaxRlResets == 1

\* period of the refill and of the leak interval
IntervalMs == 100

Strategies ==
  {"fixed-window", "sliding-window", "token-bucket", "leaky-bucket"}

Keys == {"A", "B"}

\* a step of the clock lasts one period of the intervals, or ten
AdvanceSteps == {1, 10}

\* reset() called without a key
NoKey == ""

VARIABLES
  rlConfig,    \* the constructor's config
  rl,          \* the limiter: windows, buckets, sleeping and settled calls
  rlOnlyB,     \* the same limiter given the same calls but those on key A
  rlNow,       \* Date.now()
  rlCalls,     \* acquire calls made
  rlAdvances,  \* steps of the clock taken
  rlResets,    \* reset calls made
  rlEv         \* the last step

rlVars ==
  <<rlConfig, rl, rlOnlyB, rlNow, rlCalls, rlAdvances, rlResets, rlEv>>

Min(a, b) == IF a <= b THEN a ELSE b

\* Math.ceil(a / b) for a >= 0, b > 0
CeilDiv(a, b) == (a + b - 1) \div b

SeqMin(s) == CHOOSE x \in Range(s) : \A y \in Range(s) : x <= y

\* Map.set
Put(m, k, v) == [x \in DOMAIN m \cup {k} |-> IF x = k THEN v ELSE m[x]]

\* Map.delete
Without(m, k) == [x \in DOMAIN m \ {k} |-> m[x]]

\* a bucket that was not initialised
NullBucket == [null |-> TRUE]

\* this.currentRate
CurrentRate == rlConfig.requestsPerSecond

\* config.burst || Math.ceil(currentRate * factor)
Capacity(factor) ==
  IF rlConfig.burst # 0 THEN rlConfig.burst ELSE CurrentRate * factor

GetWindowSize == 1000

\* a limit of one request more, a mutant of GetLimit
GetLimitPlusOne(windowSize) ==
  CeilDiv(rlConfig.requestsPerSecond * windowSize, 1000) + 1

GetLimit(windowSize) == CeilDiv(rlConfig.requestsPerSecond * windowSize, 1000)

\* a call that was not made yet
NoCall == [st |-> "none", key |-> NoKey, at |-> 0]

\* the limiter after construction at time now
NewLimiter(now) ==
  [windows |-> <<>>,
   tokenBucket |->
     IF rlConfig.strategy = "token-bucket"
     THEN [tokens |-> Capacity(2) * 1000, capacity |-> Capacity(2),
           refillRate |-> CurrentRate, lastRefill |-> now]
     ELSE NullBucket,
   leakyBucket |->
     IF rlConfig.strategy = "leaky-bucket"
     THEN [queue |-> <<>>, capacity |-> Capacity(10),
           leakRate |-> CurrentRate, lastLeak |-> now]
     ELSE NullBucket,
   totalRequests |-> 0,
   sleepers |-> {},
   out |-> [i \in 1..MaxRlCalls |-> NoCall],
   released |-> <<>>]

\* await this.sleep(waitTime), then the recursive call
Sleep(L, id, key, now, waitTime) ==
  [L EXCEPT !.sleepers = @ \cup {[id |-> id, key |-> key,
                                  wake |-> now + waitTime]},
            !.out[id].st = "waiting"]

\* acquire's promise resolved
Acquired(L, id, now) ==
  [L EXCEPT !.out[id].st = "acquired", !.out[id].at = now]

AcquireFixedWindow(L, id, key, now) ==
  LET windowSize == GetWindowSize
      windowStart == (now \div windowSize) * windowSize
      fresh == \/ key \notin DOMAIN L.windows
               \/ L.windows[key].start # windowStart
      window == IF fresh
                THEN [start |-> windowStart, count |-> 0, requests |-> <<>>]
                ELSE L.windows[key]
      limit == GetLimit(windowSize)
  IN  IF window.count >= limit
      THEN Sleep([L EXCEPT !.windows = Put(@, key, window)], id, key, now,
                 windowStart + windowSize - now)
      ELSE Acquired([L EXCEPT !.windows =
                       Put(@, key, [window EXCEPT !.count = @ + 1])],
                    id, now)

\* a pruning that forgets every request up to now, a mutant of Retained
RetainedAfterNow(requests, windowStart) ==
  SelectSeq(requests, LAMBDA t : t > windowStart + GetWindowSize)

\* the timestamps acquireSlidingWindow keeps: those inside the window
Retained(requests, windowStart) ==
  SelectSeq(requests, LAMBDA t : t > windowStart)

AcquireSlidingWindow(L, id, key, now) ==
  LET windowSize == GetWindowSize
      windowStart == now - windowSize
      old == IF key \in DOMAIN L.windows
             THEN L.windows[key]
             ELSE [start |-> now, count |-> 0, requests |-> <<>>]
      requests == Retained(old.requests, windowStart)
      window == [old EXCEPT !.requests = requests, !.count = Len(requests)]
      limit == GetLimit(windowSize)
  IN  IF window.count >= limit
      THEN Sleep([L EXCEPT !.windows = Put(@, key, window)], id, key, now,
                 SeqMin(window.requests) + windowSize - now + 1)
      ELSE Acquired([L EXCEPT !.windows =
                       Put(@, key, [window EXCEPT
                                      !.requests = Append(@, now),
                                      !.count = @ + 1])],
                    id, now)

\* a refill without the cap at capacity, a mutant of Refilled
RefilledUncapped(b, now) ==
  [b EXCEPT !.tokens = @ + (now - b.lastRefill) * b.refillRate,
            !.lastRefill = now]

\* the refill that acquireTokenBucket and the refill interval both do
Refilled(b, now) ==
  [b EXCEPT !.tokens = Min(b.capacity * 1000,
                           @ + (now - b.lastRefill) * b.refillRate),
            !.lastRefill = now]

AcquireTokenBucket(L, id, key, now) ==
  LET b == Refilled(L.tokenBucket, now)
  IN  IF b.tokens >= 1000
      THEN Acquired([L EXCEPT !.tokenBucket =
                       [b EXCEPT !.tokens = @ - 1000]], id, now)
      ELSE Sleep([L EXCEPT !.tokenBucket = b], id, key, now,
                 CeilDiv(1000 - b.tokens, b.refillRate))

\* a test that lets one caller more into the queue, a mutant of BucketFull
BucketOverfull(b) == Len(b.queue) > b.capacity

\* acquireLeakyBucket's test: the bucket is full
BucketFull(b) == Len(b.queue) >= b.capacity

AcquireLeakyBucket(L, id, key, now) ==
  IF BucketFull(L.leakyBucket)
  THEN [L EXCEPT !.out[id].st = "rejected", !.out[id].at = now]
  ELSE [L EXCEPT !.leakyBucket.queue = Append(@, id),
                 !.out[id].st = "queued"]

\* the strategy's acquire, on the first call and on every retry
AcquireStrategy(L, id, key, now) ==
  CASE rlConfig.strategy = "token-bucket" ->
         AcquireTokenBucket(L, id, key, now)
    [] rlConfig.strategy = "leaky-bucket" ->
         AcquireLeakyBucket(L, id, key, now)
    [] rlConfig.strategy = "sliding-window" ->
         AcquireSlidingWindow(L, id, key, now)
    [] OTHER -> AcquireFixedWindow(L, id, key, now)

\* acquire(key) up to its first await
Acquire(L, id, key, now) ==
  AcquireStrategy([L EXCEPT !.totalRequests = @ + 1,
                            !.out[id] = [st |-> "called", key |-> key,
                                         at |-> now]],
                  id, key, now)

\* the callback of startTokenRefill's interval
StartTokenRefill(L, now) ==
  IF L.tokenBucket = NullBucket
  THEN L
  ELSE [L EXCEPT !.tokenBucket = Refilled(@, now)]

\* the callback of startBucketLeak's interval
StartBucketLeak(L, now) ==
  IF L.leakyBucket = NullBucket
  THEN L
  ELSE IF Len(L.leakyBucket.queue) = 0
  THEN L
  ELSE LET b == L.leakyBucket
           requestsToLeak == ((now - b.lastLeak) * b.leakRate) \div 1000
           n == Min(requestsToLeak, Len(b.queue))
           gone == SubSeq(b.queue, 1, n)
       IN  [L EXCEPT !.leakyBucket.queue = SubSeq(b.queue, n + 1, Len(b.queue)),
                     !.leakyBucket.lastLeak = now,
                     !.released = @ \o gone,
                     !.out = [i \in DOMAIN @ |->
                                IF i \in Range(gone)
                                THEN [@[i] EXCEPT !.st = "acquired",
                                                  !.at = now]
                                ELSE @[i]]]

\* reset(key)
ResetLimiter(L, key) ==
  [L EXCEPT !.windows = IF key # NoKey THEN Without(@, key) ELSE <<>>,
            !.tokenBucket = IF @ = NullBucket THEN @
                            ELSE [@ EXCEPT !.tokens =
                                    L.tokenBucket.capacity * 1000],
            !.leakyBucket = IF @ = NullBucket THEN @
                            ELSE [@ EXCEPT !.queue = <<>>]]

RlEvent(kind, id, key) == [kind |-> kind, id |-> id, key |-> key]

RLInit ==
  /\ rlNow = 0
  /\ rl = NewLimiter(0)
  /\ rlOnlyB = NewLimiter(0)
  /\ rlCalls = 0
  /\ rlAdvances = 0
  /\ rlResets = 0
  /\ rlEv = RlEvent("new", 0, NoKey)

\* a caller calls rl.acquire(key); the limiter without A's calls sees the
\* call when it is not on key A
RLAcquire(key) ==
  /\ rlCalls < MaxRlCalls
  /\ rlCalls' = rlCalls + 1
  /\ rl' = Acquire(rl, rlCalls + 1, key, rlNow)
  /\ rlOnlyB' = IF key = "A" THEN rlOnlyB
                ELSE Acquire(rlOnlyB, rlCalls + 1, key, rlNow)
  /\ rlEv' = RlEvent("acquire", rlCalls + 1, key)
  /\ UNCHANGED <<rlConfig, rlNow, rlAdvances, rlResets>>

\* the sleepers of L whose timer is due
Due(L) == {s \in L.sleepers : s.wake <= rlNow}

\* a sleeper's timer fires in L: the recursive acquire call
Retry(L, id) ==
  IF \E s \in Due(L) : s.id = id
  THEN LET s == CHOOSE s \in Due(L) : s.id = id
       IN  AcquireStrategy([L EXCEPT !.sleepers = @ \ {s}],
                           id, s.key, rlNow)
  ELSE L

\* sleep's timer of call id fires
RLWake(id) ==
  /\ \E s \in Due(rl) \cup Due(rlOnlyB) : s.id = id
  /\ rl' = Retry(rl, id)
  /\ rlOnlyB' = Retry(rlOnlyB, id)
  /\ rlEv' = RlEvent("wake", id, NoKey)
  /\ UNCHANGED <<rlConfig, rlNow, rlCalls, rlAdvances, rlResets>>

\* the time reached by a step of d periods: the d-th next period of the
\* intervals, or the first sleeper's wake when that comes earlier
NextTime(d) ==
  LET tick == (rlNow \div IntervalMs + d) * IntervalMs
      wakes == {s.wake : s \in rl.sleepers \cup rlOnlyB.sleepers}
      times == {tick} \cup {t \in wakes : t > rlNow}
  IN  CHOOSE t \in times : \A u \in times : t <= u

\* the interval callbacks that run after time from, up to time to: those of
\* the first half of the periods, then those of the second half; callbacks
\* that change nothing at one period change nothing at the later ones
RECURSIVE Intervals(_, _, _)
Intervals(L, from, to) ==
  LET first == (from \div IntervalMs + 1) * IntervalMs
      periods == IF to < first THEN 0 ELSE (to - first) \div IntervalMs + 1
      mid == first + (periods \div 2 - 1) * IntervalMs
      half == IF periods = 1
              THEN StartBucketLeak(StartTokenRefill(L, first), first)
              ELSE Intervals(L, from, mid)
  IN  IF periods = 0 \/ half = L
      THEN L
      ELSE IF periods = 1
      THEN half
      ELSE Intervals(half, mid, to)

\* time passes up to the next timer; the intervals' callbacks run
RLAdvance(d) ==
  /\ rlAdvances < MaxAdvances
  /\ Due(rl) \cup Due(rlOnlyB) = {}
  /\ rlAdvances' = rlAdvances + 1
  /\ rlNow' = NextTime(d)
  /\ rl' = Intervals(rl, rlNow, NextTime(d))
  /\ rlOnlyB' = Intervals(rlOnlyB, rlNow, NextTime(d))
  /\ rlEv' = RlEvent("advance", 0, NoKey)
  /\ UNCHANGED <<rlConfig, rlCalls, rlResets>>

\* rl.reset(key), or rl.reset() when key is NoKey
RLReset(key) ==
  /\ rlResets < MaxRlResets
  /\ rlResets' = rlResets + 1
  /\ rl' = ResetLimiter(rl, key)
  /\ rlOnlyB' = ResetLimiter(rlOnlyB, key)
  /\ rlEv' = RlEvent("reset", 0, key)
  /\ UNCHANGED <<rlConfig, rlNow, rlCalls, rlAdvances>>

\* ---------------------------------------------------------------------
\* RateLimiter, adaptive mode (src/unnamed/part_012:295-365).
\* targetErrorRate is in percent, so that errorCount / totalRequests is
\* compared without fractions.  adaptiveMetrics.totalRequests is the
\* limiter's totalRequests, which acquire counts.
\* ---------------------------------------------------------------------

\* the greatest number of recordSuccess and recordError calls
MaxRecords == 3

\* the greatest number of evaluations
MaxEvals == 2

\* period of the evaluation interval
EvalPeriodMs == 10000

VARIABLES
  rlAdaptive,    \* config.adaptive
  rlAdapt,       \* currentRate, successCount and errorCount of the limiter
  rlAdaptOnlyB,  \* the same of the limiter without A's calls
  rlEvals        \* evaluations made

adVars == <<rlAdaptive, rlAdapt, rlAdaptOnlyB, rlEvals>>

NoAdaptive ==
  [enabled |-> FALSE, targetErrorRate |-> 0, increaseStep |-> 0,
   decreaseStep |-> 0, minRate |-> 0, maxRate |-> 0]

NewAdapt == [currentRate |-> CurrentRate, successCount |-> 0, errorCount |-> 0]

ADInit ==
  /\ rlAdapt = NewAdapt
  /\ rlAdaptOnlyB = NewAdapt
  /\ rlEvals = 0

\* the rate adjustAdaptiveRate sets from the error rate errors / total
AdjustedRate(rate, errors, total) ==
  IF errors * 100 > rlAdaptive.targetErrorRate * total
  THEN Max(rlAdaptive.minRate, rate - rlAdaptive.decreaseStep)
  ELSE IF errors * 200 < rlAdaptive.targetErrorRate * total
  THEN Min(rlAdaptive.maxRate, rate + rlAdaptive.increaseStep)
  ELSE rate

\* adjustAdaptiveRate() on limiter L with adaptive state A
AdjustAdaptiveRate(L, A) ==
  IF L.totalRequests = 0
  THEN [rl |-> L, ad |-> A]
  ELSE LET rate == AdjustedRate(A.currentRate, A.errorCount, L.totalRequests)
       IN  [rl |-> [L EXCEPT
                      !.totalRequests = 0,
                      !.tokenBucket =
                        IF @ = NullBucket THEN @
                        ELSE [@ EXCEPT !.refillRate = rate],
                      !.leakyBucket =
                        IF @ = NullBucket THEN @
                        ELSE [@ EXCEPT !.leakRate = rate]],
            ad |-> [currentRate |-> rate, successCount |-> 0,
                    errorCount |-> 0]]

\* recordSuccess()
RecordSuccess ==
  /\ rlAdapt.successCount + rlAdapt.errorCount < MaxRecords
  /\ rlAdapt' = [rlAdapt EXCEPT !.successCount = @ + 1]
  /\ rlAdaptOnlyB' = [rlAdaptOnlyB EXCEPT !.successCount = @ + 1]
  /\ rlEv' = RlEvent("recordSuccess", 0, NoKey)
  /\ UNCHANGED <<rlConfig, rl, rlOnlyB, rlNow, rlCalls, rlAdvances,
                 rlResets, rlAdaptive, rlEvals>>

\* recordError()
RecordError ==
  /\ rlAdapt.successCount + rlAdapt.errorCount < MaxRecords
  /\ rlAdapt' = [rlAdapt EXCEPT !.errorCount = @ + 1]
  /\ rlAdaptOnlyB' = [rlAdaptOnlyB EXCEPT !.errorCount = @ + 1]
  /\ rlEv' = RlEvent("recordError", 0, NoKey)
  /\ UNCHANGED <<rlConfig, rl, rlOnlyB, rlNow, rlCalls, rlAdvances,
                 rlResets, rlAdaptive, rlEvals>>

\* time passes up to the next evaluation while no call sleeps: the refill
\* and leak callbacks run, then the evaluation interval's callback
RLEvaluate ==
  /\ rlAdaptive.enabled
  /\ rlEvals < MaxEvals
  /\ rl.sleepers = {} /\ rlOnlyB.sleepers = {}
  /\ LET t == (rlNow \div EvalPeriodMs + 1) * EvalPeriodMs
         real == AdjustAdaptiveRate(Intervals(rl, rlNow, t), rlAdapt)
         onlyB == AdjustAdaptiveRate(Intervals(rlOnlyB, rlNow, t),
                                     rlAdaptOnlyB)
     IN  /\ rlNow' = t
         /\ rl' = real.rl
         /\ rlAdapt' = real.ad
         /\ rlOnlyB' = onlyB.rl
         /\ rlAdaptOnlyB' = onlyB.ad
  /\ rlEvals' = rlEvals + 1
  /\ rlEv' = RlEvent("evaluate", 0, NoKey)
  /\ UNCHANGED <<rlConfig, rlCalls, rlAdvances, rlResets, rlAdaptive>>

\* ---------------------------------------------------------------------
\* ConcurrencyManager (src/unnamed/part_011).  Thresholds are in percent.
\* Tasks are named by the order of the execute calls.  A task's duration
\* and metrics.avgExecutionTime, which nothing here reads, are left out.
\* ---------------------------------------------------------------------

\* the greatest number of execute calls
MaxCmTasks == 3

\* the time at which the clock stops
MaxCmTime == 2

\* the greatest number of setConcurrency, resume and clear calls
MaxCmOps == 1

\* performanceHistory keeps this many samples
HistoryLimit == 1000

\* task.priority undefined
NoCmPriority == 0

CmPriorities == {NoCmPriority, 1}

VARIABLES
  cmConfig,   \* the constructor's config
  cm,         \* activeCount, queue, results, errors, currentConcurrency,
              \* metrics, performanceHistory
  cmTask,     \* per execute call: state, priority, invocations, outcome
  cmCalls,    \* execute calls made
  cmNow,      \* Date.now(), in ticks
  cmLastEval, \* the time of the last evaluation
  cmOps,      \* setConcurrency, resume and clear calls made
  cmEv        \* the last step

cmVars == <<cmConfig, cm, cmTask, cmCalls, cmNow, cmLastEval, cmOps, cmEv>>

NoCmTask ==
  [st |-> "none", priority |-> NoCmPriority, invoked |-> 0,
   outcome |-> "none"]

CmEvent(kind, id) ==
  [kind |-> kind, id |-> id, active |-> cm.activeCount,
   current |-> cm.currentConcurrency]

CMInit ==
  /\ cm = [activeCount |-> 0, queue |-> <<>>, results |-> {}, errors |-> {},
           currentConcurrency |-> cmConfig.maxConcurrent,
           metrics |-> [totalExecuted |-> 0, totalSuccess |-> 0,
                        totalErrors |-> 0, totalTimeout |-> 0,
                        peakConcurrency |-> 0],
           performanceHistory |-> <<>>]
  /\ cmTask = [i \in 1..MaxCmTasks |-> NoCmTask]
  /\ cmCalls = 0
  /\ cmNow = 0
  /\ cmLastEval = 0
  /\ cmOps = 0
  /\ cmEv = [kind |-> "new", id |-> 0, active |-> 0,
             current |-> cmConfig.maxConcurrent]

\* t.priority || 0
CmPrio(T, id) == T[id].priority

\* addToQueue's insertion: by priority when config.priority is set and the
\* task has a priority, at the end otherwise
CmInsert(q, T, id) ==
  IF cmConfig.priority /\ T[id].priority # NoCmPriority
  THEN LET lower == {i \in 1..Len(q) : CmPrio(T, q[i]) < CmPrio(T, id)}
       IN  IF lower = {}
           THEN Append(q, id)
           ELSE LET index == CHOOSE i \in lower : \A j \in lower : i <= j
                IN  SubSeq(q, 1, index - 1) \o <<id>>
                      \o SubSeq(q, index, Len(q))
  ELSE Append(q, id)

\* processTask(task) up to its await: the task is counted and invoked
ProcessTask(S, id) ==
  [S EXCEPT !.cm.activeCount = @ + 1,
            !.cm.metrics.peakConcurrency = Max(@, S.cm.activeCount + 1),
            !.task[id].st = "active",
            !.task[id].invoked = @ + 1]

\* processQueue(): tasks start while activeCount < currentConcurrency
RECURSIVE ProcessQueue(_)
ProcessQueue(S) ==
  IF S.cm.activeCount < S.cm.currentConcurrency /\ Len(S.cm.queue) > 0
  THEN ProcessQueue(ProcessTask([S EXCEPT !.cm.queue = Tail(@)],
                                Head(S.cm.queue)))
  ELSE S

\* recordPerformance(success, duration)
RecordPerformance(history, success) ==
  LET h == Append(history, [timestamp |-> cmNow, success |-> success])
  IN  IF Len(h) > HistoryLimit THEN Tail(h) ELSE h

\* execute(task): the promise's executor
CmExecute(priority) ==
  /\ cmCalls < MaxCmTasks
  /\ cmCalls' = cmCalls + 1
  /\ LET id == cmCalls + 1
         T == [cmTask EXCEPT ![id].priority = priority]
     IN  IF cmConfig.queueSize # 0 /\ Len(cm.queue) >= cmConfig.queueSize
         THEN /\ cmTask' = [T EXCEPT ![id].st = "settled",
                                     ![id].outcome = "queue full"]
              /\ cm' = cm
              /\ cmEv' = CmEvent("rejected", id)
         ELSE LET S == ProcessQueue(
                         [cm |-> [cm EXCEPT !.queue = CmInsert(@, T, id)],
                          task |-> [T EXCEPT ![id].st = "queued"]])
              IN  /\ cm' = S.cm
                  /\ cmTask' = S.task
                  /\ cmEv' = CmEvent("execute", id)
  /\ UNCHANGED <<cmConfig, cmNow, cmLastEval, cmOps>>

\* processTask after its await: the task settled with outcome, or its
\* timeout timer fired first
CmSettle(id, outcome) ==
  /\ cmTask[id].st = "active"
  /\ LET ok == outcome = "result"
         m == cm.metrics
         done == [cm EXCEPT
                    !.metrics = [m EXCEPT
                      !.totalExecuted = @ + 1,
                      !.totalSuccess = IF ok THEN @ + 1 ELSE @,
                      !.totalErrors = IF ok THEN @ ELSE @ + 1,
                      !.totalTimeout =
                        IF outcome = "timeout" THEN @ + 1 ELSE @],
                    !.results = IF ok THEN @ \cup {id} ELSE @,
                    !.errors = IF ok THEN @ ELSE @ \cup {id},
                    !.performanceHistory = RecordPerformance(@, ok),
                    !.activeCount = @ - 1]
         S == ProcessQueue(
                [cm |-> done,
                 task |-> [cmTask EXCEPT ![id].st = "settled",
                                         ![id].outcome = outcome]])
     IN  /\ cm' = S.cm
         /\ cmTask' = S.task
  /\ cmEv' = CmEvent(outcome, id)
  /\ UNCHANGED <<cmConfig, cmCalls, cmNow, cmLastEval, cmOps>>

\* the samples evaluateAndScale looks at
RecentPerformance ==
  SelectSeq(cm.performanceHistory,
            LAMBDA p : p.timestamp >= cmNow - cmConfig.adaptiveScaling.evaluationWindow)

\* a step of 1 down to adaptiveScaling.maxConcurrent, whatever the present
\* concurrency is
ScaledUnguarded(current, recent) ==
  LET a == cmConfig.adaptiveScaling
      successCount == Len(SelectSeq(recent, LAMBDA p : p.success))
  IN  IF successCount * 100 >= a.scaleUpThreshold * Len(recent)
      THEN Min(current + 1, a.maxConcurrent)
      ELSE IF /\ successCount * 100 <= a.scaleDownThreshold * Len(recent)
              /\ current > a.minConcurrent
      THEN Max(current - 1, a.minConcurrent)
      ELSE current

\* the concurrency evaluateAndScale sets from the recent samples
Scaled(current, recent) ==
  LET a == cmConfig.adaptiveScaling
      successCount == Len(SelectSeq(recent, LAMBDA p : p.success))
  IN  IF /\ successCount * 100 >= a.scaleUpThreshold * Len(recent)
         /\ current < a.maxConcurrent
      THEN Min(current + 1, a.maxConcurrent)
      ELSE IF /\ successCount * 100 <= a.scaleDownThreshold * Len(recent)
              /\ current > a.minConcurrent
      THEN Max(current - 1, a.minConcurrent)
      ELSE current

\* the scale timer fires: evaluateAndScale()
EvaluateAndScale ==
  /\ cmConfig.adaptiveScaling.enabled
  /\ cmNow > cmLastEval
  /\ cmNow % cmConfig.adaptiveScaling.evaluationWindow = 0
  /\ cmLastEval' = cmNow
  /\ cm' = IF Len(RecentPerformance) = 0
           THEN cm
           ELSE [cm EXCEPT
                   !.currentConcurrency = Scaled(@, RecentPerformance),
                   !.performanceHistory = RecentPerformance]
  /\ cmEv' = CmEvent("evaluate", 0)
  /\ UNCHANGED <<cmConfig, cmTask, cmCalls, cmNow, cmOps>>

\* the evaluation that is due at the present time was made
Evaluated ==
  \/ ~cmConfig.adaptiveScaling.enabled
  \/ cmNow = cmLastEval
  \/ cmNow % cmConfig.adaptiveScaling.evaluationWindow # 0

\* a tick of the clock
CmTick ==
  /\ cmNow < MaxCmTime
  /\ Evaluated
  /\ cmNow' = cmNow + 1
  /\ cmEv' = CmEvent("tick", 0)
  /\ UNCHANGED <<cmConfig, cm, cmTask, cmCalls, cmLastEval, cmOps>>

\* setConcurrency(value)
SetConcurrency(value) ==
  /\ cmOps < MaxCmOps
  /\ cmOps' = cmOps + 1
  /\ IF value < 1
     THEN /\ UNCHANGED <<cm, cmTask>>
          /\ cmEv' = CmEvent("setConcurrency failed", 0)
     ELSE LET S == ProcessQueue([cm |-> [cm EXCEPT !.currentConcurrency = value],
                                 task |-> cmTask])
          IN  /\ cm' = S.cm
              /\ cmTask' = S.task
              /\ cmEv' = CmEvent("setConcurrency", 0)
  /\ UNCHANGED <<cmConfig, cmCalls, cmNow, cmLastEval>>

\* pause(): emits 'paused' and changes nothing
CmPause ==
  /\ cmOps < MaxCmOps
  /\ cmOps' = cmOps + 1
  /\ cmEv' = CmEvent("pause", 0)
  /\ UNCHANGED <<cmConfig, cm, cmTask, cmCalls, cmNow, cmLastEval>>

\* resume()
CmResume ==
  /\ cmOps < MaxCmOps
  /\ cmOps' = cmOps + 1
  /\ LET S == ProcessQueue([cm |-> cm, task |-> cmTask])
     IN  /\ cm' = S.cm
         /\ cmTask' = S.task
  /\ cmEv' = CmEvent("resume", 0)
  /\ UNCHANGED <<cmConfig, cmCalls, cmNow, cmLastEval>>

\* clear()
CmClear ==
  /\ cmOps < MaxCmOps
  /\ cmOps' = cmOps + 1
  /\ cm' = [cm EXCEPT !.queue = <<>>, !.results = {}, !.errors = {}]
  /\ cmEv' = CmEvent("clear", 0)
  /\ UNCHANGED <<cmConfig, cmTask, cmCalls, cmNow, cmLastEval>>

\* ---------------------------------------------------------------------
\* BackoffStrategy (src/src/strategies/BackoffStrategy.ts).  Delays are in
\* ms, jitterFactor in percent, Math.random() in tenths.
\* ---------------------------------------------------------------------

\* the greatest number of next calls
MaxBsCalls == 3

\* the greatest number of reset calls
MaxBsResets == 1

\* an option that is absent; the constructor's || treats 0 the same way
NoOption == 0

BackoffTypes ==
  {"exponential", "linear", "constant", "fibonacci", "decorrelated_jitter"}

\* the values Math.random() returns, in tenths
Randoms == {0, 5, 9}

VARIABLES
  bsConfig,   \* BackoffStrategy.config, after the constructor
  bsAttempt,  \* BackoffStrategy.attempt
  bsFib,      \* BackoffStrategy.fibSequence
  bsOut,      \* history: the delays returned since construction or reset
  bsCalls,    \* next calls made
  bsResets,   \* reset calls made
  bsEv        \* the last step

bsVars == <<bsConfig, bsAttempt, bsFib, bsOut, bsCalls, bsResets, bsEv>>

\* the constructor's defaults
BsConstruct(c) ==
  [c EXCEPT !.multiplier = IF @ = NoOption THEN 2 ELSE @,
            !.increment = IF @ = NoOption THEN 1000 ELSE @,
            !.jitterFactor = IF @ = NoOption THEN 10 ELSE @]

BSInit ==
  /\ bsAttempt = 0
  /\ bsFib = <<0, 1>>
  /\ bsOut = <<>>
  /\ bsCalls = 0
  /\ bsResets = 0
  /\ bsEv = "new"

\* Math.pow(b, e) for a natural e
RECURSIVE Pow(_, _)
Pow(b, e) == IF e = 0 THEN 1 ELSE b * Pow(b, e - 1)

\* the exponent the comment of exponentialBackoff names
ExponentialByAttempt(attempt) ==
  bsConfig.initialDelay * Pow(bsConfig.multiplier, attempt)

\* exponentialBackoff()
ExponentialBackoff(attempt) ==
  bsConfig.initialDelay * Pow(bsConfig.multiplier, attempt - 1)

\* linearBackoff()
LinearBackoff(attempt) ==
  bsConfig.initialDelay + bsConfig.increment * (attempt - 1)

\* fibSequence after fibonacciBackoff()'s loop
RECURSIVE FibSequence(_, _)
FibSequence(fib, attempt) ==
  IF Len(fib) <= attempt
  THEN FibSequence(Append(fib, fib[Len(fib)] + fib[Len(fib) - 1]), attempt)
  ELSE fib

\* fibonacciBackoff(); fibSequence[attempt] counts from 0
FibonacciBackoff(fib, attempt) ==
  bsConfig.initialDelay * FibSequence(fib, attempt)[attempt + 1]

\* decorrelatedJitterBackoff() with Math.random() = random / 10
DecorrelatedJitterBackoff(attempt, random) ==
  LET previousDelay == IF attempt = 1
                       THEN bsConfig.initialDelay
                       ELSE bsConfig.initialDelay * Pow(2, attempt - 2)
      min == bsConfig.initialDelay
      max == previousDelay * 3
  IN  (random * (max - min)) \div 10 + min

\* applyJitter(delay) with Math.random() = random / 10
ApplyJitter(delay, random) ==
  delay + (delay * bsConfig.jitterFactor * (2 * random - 10)) \div 1000

\* the delay next() computes at an attempt, before the limit
BsDelay(attempt, random, jitterRandom) ==
  LET delay ==
        CASE bsConfig.type = "exponential" -> ExponentialBackoff(attempt)
          [] bsConfig.type = "linear" -> LinearBackoff(attempt)
          [] bsConfig.type = "constant" -> bsConfig.initialDelay
          [] bsConfig.type = "fibonacci" -> FibonacciBackoff(bsFib, attempt)
          [] bsConfig.type = "decorrelated_jitter" ->
               DecorrelatedJitterBackoff(attempt, random)
          [] OTHER -> ExponentialBackoff(attempt)
  IN  IF bsConfig.jitter THEN ApplyJitter(delay, jitterRandom) ELSE delay

\* next()
BsNext(random, jitterRandom) ==
  /\ bsCalls < MaxBsCalls
  /\ bsCalls' = bsCalls + 1
  /\ bsAttempt' = bsAttempt + 1
  /\ bsFib' = IF bsConfig.type = "fibonacci"
              THEN FibSequence(bsFib, bsAttempt + 1)
              ELSE bsFib
  /\ bsOut' = Append(bsOut, Min(BsDelay(bsAttempt + 1, random, jitterRandom),
                                bsConfig.maxDelay))
  /\ bsEv' = "next"
  /\ UNCHANGED <<bsConfig, bsResets>>

\* reset()
BsReset ==
  /\ bsResets < MaxBsResets
  /\ bsResets' = bsResets + 1
  /\ bsAttempt' = 0
  /\ bsOut' = <<>>
  /\ bsEv' = "reset"
  /\ UNCHANGED <<bsConfig, bsFib, bsCalls>>

\* ---------------------------------------------------------------------
\* BrowserInstance (src/unnamed/part_006).  A page is named by the
\* acquirePage call that opened it.  The health check, which reads the
\* pages of no call, is left out.
\* ---------------------------------------------------------------------

\* the greatest number of acquirePage calls
MaxBiCalls == 3

VARIABLES
  biConfig,        \* BrowserInstance.config
  biBrowser,       \* BrowserInstance.browser is not null
  biPages,         \* BrowserInstance.pages
  biCall,          \* per acquirePage call: where the call, or its page, is
  biCalls,         \* acquirePage calls made
  biTotalRequests, \* BrowserInstance.totalRequests
  biEv             \* the last step

biVars ==
  <<biConfig, biBrowser, biPages, biCall, biCalls, biTotalRequests, biEv>>

BIInit ==
  /\ biBrowser = FALSE
  /\ biPages = {}
  /\ biCall = [c \in 1..MaxBiCalls |-> "none"]
  /\ biCalls = 0
  /\ biTotalRequests = 0
  /\ biEv = [kind |-> "new", call |-> 0]

\* initialize(), after the launch
BiInitialize ==
  /\ ~biBrowser
  /\ biBrowser' = TRUE
  /\ biEv' = [kind |-> "initialized", call |-> 0]
  /\ UNCHANGED <<biConfig, biPages, biCall, biCalls, biTotalRequests>>

\* acquirePage() up to its first await: the two tests, then browser.newPage()
BiAcquire ==
  /\ biCalls < MaxBiCalls
  /\ biCalls' = biCalls + 1
  /\ LET c == biCalls + 1
         answer == IF ~biBrowser THEN "Browser not initialized"
                   ELSE IF Cardinality(biPages) >= biConfig.maxPages
                   THEN "Max pages limit reached"
                   ELSE "newPage"
     IN  /\ biCall' = [biCall EXCEPT ![c] = answer]
         /\ biEv' = [kind |-> answer, call |-> c]
  /\ UNCHANGED <<biConfig, biBrowser, biPages, biTotalRequests>>

\* browser.newPage() resolves: the page is open, page.addInitScript() starts
BiNewPage(c) ==
  /\ biCall[c] = "newPage"
  /\ biCall' = [biCall EXCEPT ![c] = "addInitScript"]
  /\ biEv' = [kind |-> "opened", call |-> c]
  /\ UNCHANGED <<biConfig, biBrowser, biPages, biCalls, biTotalRequests>>

\* page.addInitScript() resolves: the rest of acquirePage()
BiPageAcquired(c) ==
  /\ biCall[c] = "addInitScript"
  /\ biPages' = biPages \cup {c}
  /\ biTotalRequests' = biTotalRequests + 1
  /\ biCall' = [biCall EXCEPT ![c] = "held"]
  /\ biEv' = [kind |-> "pageAcquired", call |-> c]
  /\ UNCHANGED <<biConfig, biBrowser, biCalls>>

\* releasePage(page) up to its await of page.close()
BiReleasePage(c) ==
  /\ biCall[c] = "held"
  /\ biCall' = [biCall EXCEPT ![c] = "closing"]
  /\ biEv' = [kind |-> "closing", call |-> c]
  /\ UNCHANGED <<biConfig, biBrowser, biPages, biCalls, biTotalRequests>>

\* page.close() settles: the rest of releasePage(page)
BiPageReleased(c) ==
  /\ biCall[c] = "closing"
  /\ biPages' = biPages \ {c}
  /\ biCall' = [biCall EXCEPT ![c] = "released"]
  /\ biEv' = [kind |-> "pageReleased", call |-> c]
  /\ UNCHANGED <<biConfig, biBrowser, biCalls, biTotalRequests>>

\* the components added to the rate limiter and after it
extraVars == <<adVars, cmVars, bsVars, biVars>>

\* the components that are not part of the queue
moreVars == <<cbVars, rlVars, extraVars>>

vars == <<pqVars, dlqVars, tqVars, moreVars>>

(***************************************************************************)
(* C1, C3, C4, C5, C8, C9, C10: TaskQueue.                                 *)
(***************************************************************************)
\* C1: the number of tasks in PROCESSING (processTask started, slot not
\* yet released) never exceeds the configured concurrency.
C1_ConcurrencyCeiling == Cardinality(Processing) <= config.concurrency

\* the tier a caller asked for
GivenTier(h) == IF given[h] = NoPriority THEN NORMAL ELSE given[h]

\* C3: add keeps the priority the caller supplied (NORMAL if none), so
\* that a task starts only when every task still waiting has a lower tier,
\* or the same tier and was added later.
C3_TierOrder ==
  [][/\ \A h \in Handles :
          task'[h].status # "new" => task'[h].priority = GivenTier(h)'
     /\ \A h \in Handles :
          (proc[h] = "idle" /\ proc'[h] = "exec") =>
            \A g \in Range(PQGetAll(queues')) :
              \/ GivenTier(g)' > GivenTier(h)'
              \/ GivenTier(g)' = GivenTier(h)' /\ g > h]_vars

\* C4: a task that has become FAILED was RETRYING exactly maxRetries times
\* before, and is in the dead-letter queue exactly once.
C4_RetryExhaustion ==
  \A h \in Handles :
    task[h].status = "failed" =>
      /\ nRetrying[h] = config.maxRetries
      /\ Cardinality({i \in 1..Len(deadLetter) : deadLetter[i].obj = h}) = 1

\* C5: add accepts no task once the pending count has reached
\* maxQueueSize, and an add that rejects leaves the pending queue,
\* totalAdded and every task as they were.
C5_RejectedAddChangesNothing ==
  [][/\ PQSize(queues) >= config.maxQueueSize => nAdded' = nAdded
     /\ ev'.kind = "addRejected" =>
          /\ queues' = queues
          /\ metrics'.totalAdded = metrics.totalAdded
          /\ task' = task]_vars

\* C8: when cancel returns true the task has left the queue and its status
\* is CANCELLED; when it returns false nothing was removed.
C8_CancelMarksCancelled ==
  ev.kind = "cancel" =>
    IF ev.ret
    THEN /\ ev.h \notin Range(PQGetAll(queues))
         /\ task[ev.h].status = "cancelled"
    ELSE ev.h = Null

\* C9: when stop({graceful: true}) returns, every task that was PROCESSING
\* at the call is COMPLETED or FAILED, no task is PROCESSING, and no task
\* was started while the call waited (unless start or resume was called).
C9_GracefulStop ==
  (ev.kind = "stopReturned" /\ ev.ret) =>
    /\ \A h \in stopSnap : task[h].status \in {"completed", "failed"}
    /\ Processing = {}
    /\ stopClean => ~stopStarted

\* the handling of a failed attempt, as for any error: RETRYING with a
\* re-enqueue timer while retries < maxRetries, else FAILED, recorded in
\* failedTasks and dead-lettered; the slot is released
HandledAsFailure(h, error) ==
  /\ task[h].lastError = error
  /\ task[h].status =
       IF task[h].retries < config.maxRetries THEN "retrying" ELSE "failed"
  /\ task[h].status = "retrying" => retryTimer[h]
  /\ task[h].status = "failed" =>
       /\ task[h].id \in failedTasks
       /\ config.enableDeadLetter => DLQHas(deadLetter, task[h].id)
  /\ task[h].id \notin activeTasks
  /\ proc[h] = "idle"

\* C10: an attempt that times out is handled as a failure with a timeout
\* error and releases its slot in the same step; the later settlement of
\* the timed-out execution changes no task, store, counter or slot.
C10_Timeout ==
  [][/\ ev'.kind = "timeout" =>
          /\ HandledAsFailure(ev.h, "timeout")'
          /\ task'[ev'.h].retries = task[ev'.h].retries + 1
     /\ ev'.kind = "lateSettle" =>
          UNCHANGED <<task, queues, deadLetter, activeTasks, completedTasks,
                      failedTasks, metrics, proc, retryTimer, isProcessing,
                      isPaused>>]_vars

\* the execution of a timed-out attempt settles while the task's retry is
\* running and another task holds a slot as well
C10_Witness ==
  /\ ev.kind = "lateSettle"
  /\ task[ev.h].lastError = "timeout"
  /\ proc[ev.h] = "exec"
  /\ Cardinality(Processing) >= 2

(***************************************************************************)
(* Specifications.                                                         *)
(***************************************************************************)
\* the components a specification does not exercise stay as constructed
IdleConfig ==
  [concurrency |-> 1, maxQueueSize |-> 2, maxRetries |-> 1,
   enableDeadLetter |-> TRUE]

TQIdle == TQInit /\ config = IdleConfig

PQIdle == PQInit

DLQIdle == DLQInit /\ dlqMax = 0

CbIdleConfig ==
  [failureThreshold |-> 1, successThreshold |-> 1, halfOpenMaxAttempts |-> 1]

CBIdle == CBInit /\ cbConfig = CbIdleConfig

RlIdleConfig ==
  [strategy |-> "fixed-window", requestsPerSecond |-> 1, burst |-> 1]

RLIdle == rlConfig = RlIdleConfig /\ RLInit

ADIdle == rlAdaptive = NoAdaptive /\ ADInit

NoScaling ==
  [enabled |-> FALSE, minConcurrent |-> 1, maxConcurrent |-> 1,
   scaleUpThreshold |-> 0, scaleDownThreshold |-> 0, evaluationWindow |-> 1]

CmIdleConfig ==
  [maxConcurrent |-> 1, queueSize |-> 0, priority |-> FALSE,
   adaptiveScaling |-> NoScaling]

CMIdle == cmConfig = CmIdleConfig /\ CMInit

BsIdleConfig ==
  [type |-> "constant", initialDelay |-> 1000, maxDelay |-> 1000,
   multiplier |-> 2, increment |-> 1000, jitter |-> FALSE,
   jitterFactor |-> 10]

BSIdle == bsConfig = BsIdleConfig /\ BSInit

BIIdle == biConfig = [maxPages |-> 1] /\ BIInit

\* the components after the backoff strategy
LateIdle == BIIdle

ExtraIdle == ADIdle /\ CMIdle /\ BSIdle /\ LateIdle

MoreIdle == CBIdle /\ RLIdle /\ ExtraIdle

NextPQ ==
  \/ \E p \in Tiers \cup {NoPriority} :
       PQ_Enqueue(p) /\ UNCHANGED <<dlqVars, tqVars, moreVars>>
  \/ PQ_Dequeue /\ UNCHANGED <<dlqVars, tqVars, moreVars>>

InitPQ == PQInit /\ DLQIdle /\ TQIdle /\ MoreIdle

SpecPQ == InitPQ /\ [][NextPQ]_vars

NextDLQ ==
  \/ \E id \in 1..MaxDlqIds : DLQ_Add(id) /\ UNCHANGED <<pqVars, tqVars, moreVars>>
  \/ \E id \in 1..MaxDlqIds : DLQ_Remove(id) /\ UNCHANGED <<pqVars, tqVars, moreVars>>
  \/ DLQ_Clear /\ UNCHANGED <<pqVars, tqVars, moreVars>>

InitDLQ == DLQInit /\ PQIdle /\ TQIdle /\ MoreIdle

SpecDLQ == InitDLQ /\ [][NextDLQ]_vars

Others == UNCHANGED <<pqVars, dlqVars, moreVars>>

\* a TaskQueue of concurrency 1 or 2 whose callers leave the priority to
\* the queue and write an id on their tasks or leave that to the queue too
NextTQ ==
  \/ \E batch \in Batches(SuppliedIds \cup {NoId}, {NoPriority}) :
       Add(batch, MaxTasks) /\ Others
  \/ Start /\ Others
  \/ Pause /\ Others
  \/ Resume /\ Others
  \/ LoopWake /\ Others
  \/ \E h \in Handles : Resolve(h) /\ Others
  \/ \E h \in Handles : Reject(h) /\ Others
  \/ \E h \in Handles : RetryTimerFire(h) /\ Others
  \/ \E id \in AllIds : Cancel(id) /\ Others

TQConfigs ==
  [concurrency : {1, 2}, maxQueueSize : {2}, maxRetries : {2},
   enableDeadLetter : {TRUE}]

InitTQ == TQInit /\ config \in TQConfigs /\ PQIdle /\ DLQIdle /\ MoreIdle

SpecTQ == InitTQ /\ [][NextTQ]_vars

\* the same queue with a stop call now and then, for fewer tasks
NextStop ==
  \/ \E batch \in Batches(SuppliedIds \cup {NoId}, {NoPriority}) :
       Add(batch, SmallTasks) /\ Others
  \/ Start /\ Others
  \/ Pause /\ Others
  \/ Resume /\ Others
  \/ \E graceful \in BOOLEAN : Stop(graceful) /\ Others
  \/ StopPoll /\ Others
  \/ LoopWake /\ Others
  \/ \E h \in Handles : Resolve(h) /\ Others
  \/ \E h \in Handles : Reject(h) /\ Others
  \/ \E h \in Handles : RetryTimerFire(h) /\ Others

SpecStop == InitTQ /\ [][NextStop]_vars

\* the same queue with executions that may outlast the timeout
NextTimeout ==
  \/ \E batch \in Singles({NoId}, {NoPriority}) :
       Add(batch, SmallTasks) /\ Others
  \/ Pause /\ Others
  \/ Resume /\ Others
  \/ LoopWake /\ Others
  \/ \E h \in Handles : Resolve(h) /\ Others
  \/ \E h \in Handles : Reject(h) /\ Others
  \/ \E h \in Handles : Timeout(h) /\ Others
  \/ \E h \in Handles : LateSettle(h) /\ Others
  \/ \E h \in Handles : RetryTimerFire(h) /\ Others

SpecTimeout == InitTQ /\ [][NextTimeout]_vars

\* a queue whose callers set priorities
NextPrio ==
  \/ \E batch \in Batches({NoId}, Tiers \cup {NoPriority}) :
       Add(batch, MaxTasks) /\ Others
  \/ Start /\ Others
  \/ Pause /\ Others
  \/ Resume /\ Others
  \/ LoopWake /\ Others
  \/ \E h \in Handles : Resolve(h) /\ Others

PrioConfigs ==
  [concurrency : {1}, maxQueueSize : {3}, maxRetries : {1},
   enableDeadLetter : {TRUE}]

InitPrio == TQInit /\ config \in PrioConfigs /\ PQIdle /\ DLQIdle /\ MoreIdle

SpecPrio == InitPrio /\ [][NextPrio]_vars

(***************************************************************************)
(* C11: where a task is.                                                   *)
(***************************************************************************)
\* pending in the priority queue
Pending(h) == h \in Range(PQGetAll(queues))

\* actively executing: processTask holds the task
Executing(h) == proc[h] = "exec"

\* recorded in the completed, failed or dead-letter store
Recorded(h) ==
  \/ task[h].id \in completedTasks
  \/ task[h].id \in failedTasks
  \/ DLQHas(deadLetter, task[h].id)

\* C11: no added task is at once pending and executing, and no pending or
\* executing task is at the same time recorded as completed or failed (the
\* part of "exactly one location" that does not depend on how a task in
\* its retry backoff is counted).
C11_TaskLocation ==
  \A h \in Handles :
    task[h].status # "new" =>
      /\ ~(Pending(h) /\ Executing(h))
      /\ (Pending(h) \/ Executing(h)) => ~Recorded(h)

\* a TaskQueue of concurrency 1 whose tasks get generated ids, under add,
\* processing, retries, cancel, retryFailed and clear
NextLoc ==
  \/ \E batch \in Singles({NoId}, {NoPriority}) :
       Add(batch, SmallTasks) /\ Others
  \/ LoopWake /\ Others
  \/ \E h \in Handles : Resolve(h) /\ Others
  \/ \E h \in Handles : Reject(h) /\ Others
  \/ \E h \in Handles : RetryTimerFire(h) /\ Others
  \/ \E id \in AllIds : Cancel(id) /\ Others
  \/ \E id \in AllIds : RetryFailed(id) /\ Others
  \/ RetryFailedAll /\ Others
  \/ \E opts \in ClearOptions : Clear(opts) /\ Others

LocConfigs ==
  [concurrency : {1}, maxQueueSize : {2}, maxRetries : {1, 2},
   enableDeadLetter : {TRUE}]

InitLoc == TQInit /\ config \in LocConfigs /\ PQIdle /\ DLQIdle /\ MoreIdle

SpecLoc == InitLoc /\ [][NextLoc]_vars

(***************************************************************************)
(* C12: pause.                                                             *)
(***************************************************************************)
\* C12: while the queue stays paused (no resume or start call, the only
\* calls that unset isPaused) no task moves to PROCESSING; the step that
\* pauses leaves the tasks in PROCESSING as they are; an add during the
\* pause only enqueues its tasks and starts no processing loop.
C12_Pause ==
  [][/\ (isPaused /\ isPaused') =>
          \A h \in Handles :
            /\ proc'[h] = "exec" => proc[h] = "exec"
            /\ task'[h].status = "processing" => task[h].status = "processing"
     /\ (~isPaused /\ isPaused') =>
          /\ proc' = proc /\ task' = task /\ activeTasks' = activeTasks
     /\ (isPaused /\ nAdded' > nAdded) =>
          /\ isPaused' /\ loops' = loops /\ isProcessing' = isProcessing
          /\ \A h \in (nAdded + 1)..nAdded' :
               /\ task'[h].status = "pending"
               /\ h \in Range(PQGetAll(queues'))]_vars

\* paused with a free slot and a task waiting: the loop woke, found the
\* queue paused and returned, and a task that was running has completed
C12_Witness ==
  /\ isPaused /\ isProcessing /\ loops = 0
  /\ PQSize(queues) > 0
  /\ activeTasks = {}
  /\ \E h \in Handles : task[h].status = "completed"

\* a TaskQueue that is paused and resumed while tasks are added and settle
NextPause ==
  \/ \E batch \in Batches({NoId}, {NoPriority}) :
       Add(batch, MaxTasks) /\ Others
  \/ Start /\ Others
  \/ Pause /\ Others
  \/ Resume /\ Others
  \/ LoopWake /\ Others
  \/ \E h \in Handles : Resolve(h) /\ Others
  \/ \E h \in Handles : Reject(h) /\ Others
  \/ \E h \in Handles : RetryTimerFire(h) /\ Others

SpecPause == InitTQ /\ [][NextPause]_vars

(***************************************************************************)
(* C13: resume.                                                            *)
(***************************************************************************)
\* C13: when resume() has unpaused the queue and tasks are pending, the
\* processing loop is alive to dequeue them (processQueue holds the only
\* dequeue of the TaskQueue), whether or not it ran before the pause.
C13_ResumeContinues ==
  (ev.kind = "resume" /\ PQSize(queues) > 0) =>
    (isProcessing /\ ~isPaused /\ loops > 0)

(***************************************************************************)
(* C14..C18: CircuitBreaker.                                               *)
(***************************************************************************)
CbConfigs ==
  [failureThreshold : {2}, successThreshold : {1, 2},
   halfOpenMaxAttempts : {1, 2}]

QueueIdle == TQIdle /\ PQIdle /\ DLQIdle

NoQueue == UNCHANGED <<pqVars, dlqVars, tqVars, rlVars, extraVars>>

InitCB ==
  CBInit /\ cbConfig \in CbConfigs /\ QueueIdle /\ RLIdle /\ ExtraIdle

\* a CircuitBreaker under calls, their outcomes, its timers and reset()
NextCB ==
  \/ Execute /\ NoQueue
  \/ OnSuccess /\ NoQueue
  \/ OnFailure /\ NoQueue
  \/ HalfOpen /\ NoQueue
  \/ ScheduleReset /\ NoQueue
  \/ CbReset /\ NoQueue

SpecCB == InitCB /\ [][NextCB]_vars

\* the same with forceState calls
NextCBForce ==
  \/ Execute /\ NoQueue
  \/ OnSuccess /\ NoQueue
  \/ OnFailure /\ NoQueue
  \/ HalfOpen /\ NoQueue
  \/ ScheduleReset /\ NoQueue
  \/ CbReset /\ NoQueue
  \/ \E s \in CircuitStates : ForceState(s) /\ NoQueue

SpecCBForce == InitCB /\ [][NextCBForce]_vars

\* C14: the breaker is never still CLOSED after failureThreshold failed
\* calls in a row while CLOSED, and a failure that opens it leaves the
\* timer of this opening armed.
C14_OpensAtThreshold ==
  /\ cbClosedRun < cbConfig.failureThreshold
  /\ (cbEv.kind = "failure" /\ cbEv.from = "closed" /\ cbState = "open") =>
       /\ openTimer
       /\ cbOpenTimers # <<>>
       /\ cbOpenTimers[Len(cbOpenTimers)] = cbEpoch

\* C15: a call of execute while the breaker is OPEN is rejected without
\* invoking fn, and changes neither the state nor any counter.
C15_OpenRejects ==
  [][(cbState = "open" /\ cbEv'.kind \in {"rejected", "admitted"}) =>
       /\ cbEv'.kind = "rejected"
       /\ cbInFlight' = cbInFlight
       /\ cbState' = cbState
       /\ cbMetrics' = cbMetrics
       /\ halfOpenAttempts' = halfOpenAttempts]_vars

\* a call rejected by an OPEN breaker that has counted calls and still has
\* one in flight
C15_Witness ==
  /\ cbEv.kind = "rejected" /\ cbEv.from = "open"
  /\ cbState = "open"
  /\ cbInFlight > 0
  /\ cbMetrics.consecutiveFailures >= cbConfig.failureThreshold

\* C16: whenever the breaker is OPEN the timer of this opening is armed
\* (so that it becomes HALF_OPEN when timeout has elapsed); it leaves OPEN
\* for HALF_OPEN only through that timer, not an older one; and the first
\* call of a HALF_OPEN period is admitted.
C16_Recovery ==
  /\ cbState = "open" =>
       \E i \in 1..Len(cbOpenTimers) : cbOpenTimers[i] = cbEpoch
  /\ (cbEv.kind = "halfOpen" /\ cbEv.from = "open") => cbEv.epoch = cbEpoch
  /\ (cbState = "half_open" /\ cbAdmitted = 0) => ~Rejects

RlConfigs ==
  [strategy : {"fixed-window", "sliding-window"},
   requestsPerSecond : {1, 2}, burst : {0}]
  \cup [strategy : {"token-bucket", "leaky-bucket"},
        requestsPerSecond : {1, 10, 20}, burst : {0, 1, 2}]

NoRL == UNCHANGED <<pqVars, dlqVars, tqVars, cbVars, extraVars>>

InitRL ==
  rlConfig \in RlConfigs /\ RLInit /\ QueueIdle /\ CBIdle /\ ExtraIdle

NextRL ==
  \/ \E key \in Keys : RLAcquire(key) /\ NoRL
  \/ \E id \in 1..MaxRlCalls : RLWake(id) /\ NoRL
  \/ \E d \in AdvanceSteps : RLAdvance(d) /\ NoRL
  \/ \E key \in Keys \cup {NoKey} : RLReset(key) /\ NoRL

SpecRL == InitRL /\ [][NextRL]_vars

\* the leaky bucket alone: no call sleeps, and reset() does the same to the
\* bucket with and without a key
LeakyConfigs ==
  [strategy : {"leaky-bucket"}, requestsPerSecond : {1, 10, 20},
   burst : {1, 2}]

InitLeaky ==
  rlConfig \in LeakyConfigs /\ RLInit /\ QueueIdle /\ CBIdle /\ ExtraIdle

NextLeaky ==
  \/ \E key \in Keys : RLAcquire(key) /\ NoRL
  \/ \E d \in AdvanceSteps : RLAdvance(d) /\ NoRL
  \/ RLReset(NoKey) /\ NoRL

SpecLeaky == InitLeaky /\ [][NextLeaky]_vars

\* C19: under every strategy the acquire calls on key A leave the calls on
\* key B alone: each call on B has the same outcome, at the same time, in
\* the limiter that also served A's calls and in the limiter that did not.
C19_KeyIndependence ==
  \A i \in 1..MaxRlCalls :
    rl.out[i].key = "B" => rl.out[i] = rlOnlyB.out[i]

\* C20: a leaky bucket rejects an acquire at once exactly when its queue
\* holds capacity callers and otherwise appends the caller to the queue;
\* the queue never holds more than capacity callers; the leak releases
\* callers from the front of the queue, in the order they were queued.
C20_LeakyAdmission ==
  [][rlConfig.strategy = "leaky-bucket" =>
       LET b == rl.leakyBucket
           c == rl'.leakyBucket
       IN  /\ Len(c.queue) <= c.capacity
           /\ rlEv'.kind = "acquire" =>
                IF Len(b.queue) = b.capacity
                THEN /\ rl'.out[rlEv'.id].st = "rejected"
                     /\ rl'.out[rlEv'.id].at = rlNow
                     /\ c = b
                ELSE /\ rl'.out[rlEv'.id].st = "queued"
                     /\ c.queue = Append(b.queue, rlEv'.id)
           /\ rlEv'.kind = "advance" =>
                \E n \in 0..Len(b.queue) :
                  /\ rl'.released = rl.released \o SubSeq(b.queue, 1, n)
                  /\ c.queue = SubSeq(b.queue, n + 1, Len(b.queue))
                  /\ \A i \in 1..n :
                       /\ rl'.out[b.queue[i]].st = "acquired"
                       /\ rl'.out[b.queue[i]].at \in (rlNow + 1)..rlNow'
                       /\ i > 1 => rl'.out[b.queue[i - 1]].at
                                      <= rl'.out[b.queue[i]].at]_vars

\* a full bucket of capacity 2 rejected the third caller, and the leak then
\* released the two queued callers in the order they were queued
C20_Witness ==
  /\ rlConfig.strategy = "leaky-bucket"
  /\ rlEv.kind = "advance"
  /\ rl.leakyBucket.capacity = 2
  /\ rl.out[3].st = "rejected"
  /\ rl.released = <<1, 2>>
  /\ rl.leakyBucket.queue = <<>>

\* ---------------------------------------------------------------------
\* C21: the token bucket
\* ---------------------------------------------------------------------

\* token buckets of capacity 1 and 2 (burst) and of capacity twice the
\* rate (no burst), refilled at 1, 10 or 20 tokens per second
TokenConfigs ==
  [strategy : {"token-bucket"}, requestsPerSecond : {1, 10, 20},
   burst : {0, 1, 2}]

InitToken ==
  rlConfig \in TokenConfigs /\ RLInit /\ QueueIdle /\ CBIdle /\ ExtraIdle

NextToken ==
  \/ \E key \in Keys : RLAcquire(key) /\ NoRL
  \/ \E id \in 1..MaxRlCalls : RLWake(id) /\ NoRL
  \/ \E d \in AdvanceSteps : RLAdvance(d) /\ NoRL
  \/ RLReset(NoKey) /\ NoRL

SpecToken == InitToken /\ [][NextToken]_vars

\* C21: the token balance stays within [0, capacity]; a call that is
\* granted takes exactly one token from the refilled balance and a call
\* that is not granted takes none; of the calls made at once on the full
\* bucket of a new limiter the first capacity are granted without waiting
\* and every further one sleeps for the time one token takes to refill.
C21_TokenBucket ==
  [][rlConfig.strategy = "token-bucket" =>
       LET b == rl.tokenBucket
           c == rl'.tokenBucket
           refilled == Min(b.capacity * 1000,
                           b.tokens + (rlNow - b.lastRefill) * b.refillRate)
           id == rlEv'.id
       IN  /\ c.tokens \in 0..(c.capacity * 1000)
           /\ ( \/ rlEv'.kind = "acquire"
                \/ rlEv'.kind = "wake" /\ \E s \in Due(rl) : s.id = id ) =>
                IF rl'.out[id].st = "acquired"
                THEN /\ c.tokens = refilled - 1000
                     /\ rl'.out[id].at = rlNow
                ELSE /\ c.tokens = refilled
                     /\ rl'.out[id].st = "waiting"
           /\ (rlNow' = 0 /\ rlResets' = 0) =>
                \A i \in 1..rlCalls' :
                  IF i <= c.capacity
                  THEN rl'.out[i].st = "acquired" /\ rl'.out[i].at = 0
                  ELSE /\ rl'.out[i].st = "waiting"
                       /\ \E s \in rl'.sleepers :
                            /\ s.id = i
                            /\ s.wake = CeilDiv(1000, c.refillRate)]_vars

\* a new limiter granted capacity calls at once and put the next to sleep
C21_Witness ==
  /\ rlConfig.strategy = "token-bucket"
  /\ rlNow = 0 /\ rlResets = 0
  /\ rlCalls = rl.tokenBucket.capacity + 1
  /\ rl.out[rlCalls].st = "waiting"
  /\ rl.tokenBucket.tokens = 0

\* ---------------------------------------------------------------------
\* C22: the fixed window
\* ---------------------------------------------------------------------

WindowRates == {1, 2}

FixedConfigs ==
  [strategy : {"fixed-window"}, requestsPerSecond : WindowRates,
   burst : {0}]

InitFixed ==
  rlConfig \in FixedConfigs /\ RLInit /\ QueueIdle /\ CBIdle /\ ExtraIdle

SpecFixed == InitFixed /\ [][NextRL]_vars

\* the calls on key granted by L at a time within [from, to)
GrantedIn(L, key, from, to) ==
  {i \in 1..MaxRlCalls :
     /\ L.out[i].st = "acquired"
     /\ L.out[i].key = key
     /\ L.out[i].at >= from
     /\ L.out[i].at < to}

\* C22: as long as reset was not called, each aligned window of a second
\* holds at most requestsPerSecond granted calls per key; a call that finds
\* its key's window full sleeps until the next window boundary, and when it
\* is granted after sleeping it is counted in a window that starts at or
\* after that boundary.
C22_FixedWindow ==
  [][rlConfig.strategy = "fixed-window" =>
       LET id == rlEv'.id
           key == rl'.out[id].key
           windowStart == (rlNow \div 1000) * 1000
           full == /\ key \in DOMAIN rl.windows
                   /\ rl.windows[key].start = windowStart
                   /\ rl.windows[key].count >= rlConfig.requestsPerSecond
           woken == {s \in Due(rl) : s.id = id}
       IN  /\ rlResets' = 0 =>
                \A k \in Keys : \A w \in 0..(rlNow' \div 1000) :
                  Cardinality(GrantedIn(rl', k, w * 1000, (w + 1) * 1000))
                    <= rlConfig.requestsPerSecond
           /\ (rlEv'.kind = "acquire" \/ (rlEv'.kind = "wake" /\ woken # {})) =>
                IF full
                THEN /\ rl'.out[id].st = "waiting"
                     /\ \E s \in rl'.sleepers :
                          s.id = id /\ s.wake = windowStart + 1000
                ELSE /\ rl'.out[id].st = "acquired"
                     /\ rl'.out[id].at = rlNow
                     /\ \A s \in woken : rl'.windows[key].start >= s.wake]_vars

\* C22 as stated, whatever was called: each aligned window of a second
\* holds at most requestsPerSecond granted calls per key.
C22_WindowLimit ==
  rlConfig.strategy = "fixed-window" =>
    \A k \in Keys : \A w \in 0..(rlNow \div 1000) :
      Cardinality(GrantedIn(rl, k, w * 1000, (w + 1) * 1000))
        <= rlConfig.requestsPerSecond

\* three callers at once on a key limited to one request per second: the
\* third is granted in the third window, after sleeping twice
C22_Witness ==
  /\ rlConfig.strategy = "fixed-window"
  /\ rlConfig.requestsPerSecond = 1
  /\ rlResets = 0
  /\ \A i \in 1..3 : rl.out[i].key = "A" /\ rl.out[i].st = "acquired"
  /\ {rl.out[i].at : i \in 1..3} = {0, 1000, 2000}

\* ---------------------------------------------------------------------
\* C23: the sliding window
\* ---------------------------------------------------------------------

SlidingConfigs ==
  [strategy : {"sliding-window"}, requestsPerSecond : WindowRates,
   burst : {0}]

InitSliding ==
  rlConfig \in SlidingConfigs /\ RLInit /\ QueueIdle /\ CBIdle /\ ExtraIdle

SpecSliding == InitSliding /\ [][NextRL]_vars

\* the times at which L granted a call
GrantTimes(L) ==
  {L.out[i].at : i \in {j \in 1..MaxRlCalls : L.out[j].st = "acquired"}}

\* every interval [a, a + 1000) holds at most requestsPerSecond granted
\* calls per key; the intervals that start at a grant are the fullest ones
SlidingLimit(L) ==
  \A k \in Keys : \A a \in GrantTimes(L) :
    Cardinality(GrantedIn(L, k, a, a + 1000)) <= rlConfig.requestsPerSecond

\* C23: as long as reset was not called, every half-open interval of one
\* second holds at most requestsPerSecond granted calls per key, callers
\* that slept and retried included.
C23_SlidingWindow ==
  (rlConfig.strategy = "sliding-window" /\ rlResets = 0) => SlidingLimit(rl)

\* C23 as stated, whatever was called: every half-open interval of one
\* second holds at most requestsPerSecond granted calls per key.
C23_IntervalLimit ==
  rlConfig.strategy = "sliding-window" => SlidingLimit(rl)

\* three callers at once on a key limited to one request per second: one
\* is granted at once, one after sleeping until the first grant left the
\* window, and the third sleeps again
C23_Witness ==
  /\ rlConfig.strategy = "sliding-window"
  /\ rlConfig.requestsPerSecond = 1
  /\ rlResets = 0
  /\ \A i \in 1..3 : rl.out[i].key = "A"
  /\ {rl.out[i].at : i \in {j \in 1..3 : rl.out[j].st = "acquired"}}
       = {0, 1001}
  /\ \E s \in rl.sleepers : s.wake = 2002

\* ---------------------------------------------------------------------
\* C24: the adaptive rate
\* ---------------------------------------------------------------------

\* token buckets that start below, inside and above [minRate, maxRate],
\* of capacity 10, so that no call sleeps
AdaptiveRlConfigs ==
  [strategy : {"token-bucket"}, requestsPerSecond : {2, 5, 12},
   burst : {10}]

AdaptiveConfigs ==
  [enabled : {TRUE}, targetErrorRate : {50}, increaseStep : {1, 3},
   decreaseStep : {1, 3}, minRate : {4}, maxRate : {6}]

InitAdaptive ==
  /\ rlConfig \in AdaptiveRlConfigs
  /\ rlAdaptive \in AdaptiveConfigs
  /\ RLInit
  /\ ADInit
  /\ QueueIdle
  /\ CBIdle
  /\ CMIdle
  /\ BSIdle
  /\ LateIdle

NoAD == UNCHANGED <<pqVars, dlqVars, tqVars, cbVars, cmVars, bsVars, biVars>>

NextAdaptive ==
  \/ RLAcquire("B") /\ NoRL
  \/ RecordSuccess /\ NoAD
  \/ RecordError /\ NoAD
  \/ RLEvaluate /\ NoAD

SpecAdaptive == InitAdaptive /\ [][NextAdaptive]_vars

\* x clamped to [minRate, maxRate]
Clamped(x) == Max(rlAdaptive.minRate, Min(rlAdaptive.maxRate, x))

\* C24: an evaluation with at least one request sets currentRate to the
\* rate raised by increaseStep when the error rate is below half of
\* targetErrorRate, lowered by decreaseStep when it is above
\* targetErrorRate, both clamped to [minRate, maxRate], and leaves it
\* otherwise; it restarts the success, error and request counters.
C24_AdaptiveRate ==
  [][(rlEv'.kind = "evaluate" /\ rl.totalRequests > 0) =>
       LET rate == rlAdapt.currentRate
           errors == rlAdapt.errorCount
           total == rl.totalRequests
           target == rlAdaptive.targetErrorRate
       IN  /\ rlAdapt'.currentRate =
                IF errors * 100 > target * total
                THEN Clamped(rate - rlAdaptive.decreaseStep)
                ELSE IF errors * 200 < target * total
                THEN Clamped(rate + rlAdaptive.increaseStep)
                ELSE rate
           /\ rlAdapt'.successCount = 0
           /\ rlAdapt'.errorCount = 0
           /\ rl'.totalRequests = 0]_vars

\* ---------------------------------------------------------------------
\* C25: the concurrency manager's ceiling
\* ---------------------------------------------------------------------

Scalings ==
  {NoScaling} \cup
  [enabled : {TRUE}, minConcurrent : {1}, maxConcurrent : {3},
   scaleUpThreshold : {90}, scaleDownThreshold : {20},
   evaluationWindow : {1}]

\* with config.priority set, a task without a priority is queued as it is
\* when config.priority is not set
CmConfigs ==
  [maxConcurrent : {1, 2}, queueSize : {0, 1}, priority : {TRUE},
   adaptiveScaling : Scalings]

\* the values setConcurrency is called with
CmValues == {0, 1, 3}

CmOutcomes == {"result", "error", "timeout"}

InitCM ==
  /\ cmConfig \in CmConfigs
  /\ CMInit
  /\ QueueIdle
  /\ CBIdle
  /\ RLIdle
  /\ ADIdle
  /\ BSIdle
  /\ LateIdle

NoCM == UNCHANGED <<pqVars, dlqVars, tqVars, cbVars, rlVars, adVars, bsVars, biVars>>

NextCM ==
  \/ \E priority \in CmPriorities : CmExecute(priority) /\ NoCM
  \/ \E id \in 1..MaxCmTasks, outcome \in CmOutcomes :
       CmSettle(id, outcome) /\ NoCM
  \/ EvaluateAndScale /\ NoCM
  \/ CmTick /\ NoCM
  \/ \E value \in CmValues : SetConcurrency(value) /\ NoCM
  \/ CmResume /\ NoCM
  \/ CmClear /\ NoCM

SpecCM == InitCM /\ [][NextCM]_vars

\* C25: the number of tasks executing at once never exceeds the configured
\* maxConcurrent, whatever execute calls, settlements, timeouts, adaptive
\* evaluations and setConcurrency calls have happened, and a step starts a
\* task only while activeCount is below currentConcurrency
C25_Ceiling ==
  cm.activeCount <= cmConfig.maxConcurrent

\* ---------------------------------------------------------------------
\* C26: adaptive scaling of the concurrency manager
\* ---------------------------------------------------------------------

\* managers that start below, inside and above the scaling range
ScaleConfigs ==
  [maxConcurrent : {1, 3}, queueSize : {0}, priority : {FALSE},
   adaptiveScaling :
     [enabled : {TRUE}, minConcurrent : {1, 2}, maxConcurrent : {2},
      scaleUpThreshold : {50, 90}, scaleDownThreshold : {0, 20},
      evaluationWindow : {1}]]

InitScale ==
  /\ cmConfig \in ScaleConfigs
  /\ CMInit
  /\ QueueIdle
  /\ CBIdle
  /\ RLIdle
  /\ ADIdle
  /\ BSIdle
  /\ LateIdle

NextScale ==
  \/ CmExecute(NoCmPriority) /\ NoCM
  \/ \E id \in 1..MaxCmTasks, outcome \in {"result", "timeout"} :
       CmSettle(id, outcome) /\ NoCM
  \/ EvaluateAndScale /\ NoCM
  \/ CmTick /\ NoCM

SpecScale == InitScale /\ [][NextScale]_vars

Queued(i) == \E k \in 1..Len(cm.queue) : cm.queue[k] = i

\* C27: every execute call invokes task.execute once and never again, it
\* settles with the result, the error or the timeout of that invocation,
\* and until it settles its task is waiting in the queue or running
C27_ExecuteOnce ==
  \A i \in 1..cmCalls :
    /\ cmTask[i].invoked <= 1
    /\ cmTask[i].st = "settled" =>
         /\ cmTask[i].invoked = 1
         /\ cmTask[i].outcome \in {"result", "error", "timeout"}
    /\ cmTask[i].st # "settled" =>
         \/ cmTask[i].st = "active" /\ cmTask[i].invoked = 1
         \/ cmTask[i].st = "queued" /\ cmTask[i].invoked = 0 /\ Queued(i)


\* ---------------------------------------------------------------------
\* C28: updatePriority
\* ---------------------------------------------------------------------

\* a queue of concurrency 1, which add starts: the first task runs and the
\* later ones wait
NextUpd ==
  \/ \E batch \in Singles(SuppliedIds, Tiers) :
       Add(batch, MaxTasks) /\ Others
  \/ LoopWake /\ Others
  \/ \E h \in Handles : Resolve(h) /\ Others
  \/ \E id \in SuppliedIds, priority \in Tiers :
       UpdatePriority(id, priority) /\ Others

SpecUpd == InitPrio /\ [][NextUpd]_vars

\* a sequence without the task h
Except(s, h) == SelectSeq(s, LAMBDA x : x # h)

\* C28: updatePriority(id, p) on a pending task puts the task in tier p
\* behind the tasks that were waiting there, leaves the pending count, the
\* other tasks, their tiers and their order as they were, and for an id
\* that is not pending it changes nothing
C28_UpdatePriority ==
  [][ev'.kind = "updatePriority" =>
       LET h == ev'.h
           p == ev'.n
       IN  /\ UNCHANGED <<config, deadLetter, activeTasks, completedTasks,
                          failedTasks, isProcessing, isPaused, metrics,
                          nAdded, proc, zombie, retryTimer, loops>>
           /\ h = Null => UNCHANGED <<task, queues>>
           /\ h # Null =>
                /\ task' = [task EXCEPT ![h].priority = p]
                /\ PQSize(queues') = PQSize(queues)
                /\ \A t \in Tiers : Except(queues'[t], h) = Except(queues[t], h)
                /\ queues'[p] = IF task[h].priority = p
                                THEN queues[p]
                                ELSE Append(queues[p], h)]_vars

\* ---------------------------------------------------------------------
\* C29: the delays of BackoffStrategy.next()
\* ---------------------------------------------------------------------

\* the configs passed to the constructor
BackoffInputs ==
  [type : BackoffTypes, initialDelay : {1000, 2000}, maxDelay : {3000, 5000},
   multiplier : {NoOption, 2, 3}, increment : {NoOption, 500},
   jitter : BOOLEAN, jitterFactor : {NoOption, 50}]

InitBackoff ==
  /\ \E c \in BackoffInputs : bsConfig = BsConstruct(c)
  /\ BSInit
  /\ QueueIdle
  /\ CBIdle
  /\ RLIdle
  /\ ADIdle
  /\ CMIdle
  /\ LateIdle

NoBS == UNCHANGED <<pqVars, dlqVars, tqVars, cbVars, rlVars, adVars, cmVars, biVars>>

NextBackoff ==
  \/ \E random \in Randoms, jitterRandom \in Randoms :
       BsNext(random, jitterRandom) /\ NoBS
  \/ BsReset /\ NoBS

SpecBackoff == InitBackoff /\ [][NextBackoff]_vars

\* the delay the n-th call is to return before the limit
Base(n) ==
  CASE bsConfig.type = "exponential" ->
         bsConfig.initialDelay * Pow(bsConfig.multiplier, n - 1)
    [] bsConfig.type = "linear" ->
         bsConfig.initialDelay + bsConfig.increment * (n - 1)
    [] bsConfig.type = "constant" -> bsConfig.initialDelay

CtorConfigs ==
  [concurrency : {-1, 0, 1}, maxQueueSize : {2}, maxRetries : {1},
   enableDeadLetter : {TRUE}]

InitCtor == TQInit /\ config \in CtorConfigs /\ PQIdle /\ DLQIdle /\ MoreIdle

NextCtor ==
  \/ \E batch \in Singles(SuppliedIds \cup {NoId}, {NoPriority}) :
       Add(batch, SmallTasks) /\ Others
  \/ Start /\ Others
  \/ Pause /\ Others
  \/ Resume /\ Others
  \/ LoopWake /\ Others
  \/ \E h \in Handles : Resolve(h) /\ Others

SpecCtor == InitCtor /\ [][NextCtor]_vars

\* C30: a TaskQueue that has accepted a task was constructed with a
\* concurrency of at least 1, since the constructor fails on a smaller one
C30_ValidConcurrency ==
  metrics.totalAdded > 0 => config.concurrency >= 1

\* ---------------------------------------------------------------------
\* C31: the page limit of a BrowserInstance
\* ---------------------------------------------------------------------

BiConfigs == [maxPages : {1, 2}]

InitBI ==
  /\ biConfig \in BiConfigs
  /\ BIInit
  /\ QueueIdle
  /\ CBIdle
  /\ RLIdle
  /\ ADIdle
  /\ CMIdle
  /\ BSIdle

NoBI ==
  UNCHANGED <<pqVars, dlqVars, tqVars, cbVars, rlVars, adVars, cmVars, bsVars>>

NextBI ==
  \/ BiInitialize /\ NoBI
  \/ BiAcquire /\ NoBI
  \/ \E c \in 1..MaxBiCalls : BiNewPage(c) /\ NoBI
  \/ \E c \in 1..MaxBiCalls : BiPageAcquired(c) /\ NoBI
  \/ \E c \in 1..MaxBiCalls : BiReleasePage(c) /\ NoBI
  \/ \E c \in 1..MaxBiCalls : BiPageReleased(c) /\ NoBI

SpecBI == InitBI /\ [][NextBI]_vars

\* C31: however acquirePage and releasePage calls interleave, a
\* BrowserInstance never holds more than maxPages open pages
C31_PageLimit ==
  Cardinality(biPages) <= biConfig.maxPages

\* ---------------------------------------------------------------------
\* C32: progress of the TaskQueue
\* ---------------------------------------------------------------------

\* a queue that add starts and that nobody pauses or stops
NextProgress ==
  \/ \E batch \in Singles({NoId}, {NoPriority}) :
       Add(batch, SmallTasks) /\ Others
  \/ LoopWake /\ Others
  \/ \E h \in Handles : Resolve(h) /\ Others
  \/ \E h \in Handles : Reject(h) /\ Others
  \/ \E h \in Handles : Timeout(h) /\ Others
  \/ \E h \in Handles : LateSettle(h) /\ Others
  \/ \E h \in Handles : RetryTimerFire(h) /\ Others

\* the loop's sleeps end, every execution settles or times out, and the
\* timers of handleTaskError fire
FairProgress ==
  /\ WF_vars(LoopWake /\ Others)
  /\ \A h \in Handles :
       /\ WF_vars((Resolve(h) \/ Reject(h) \/ Timeout(h)) /\ Others)
       /\ WF_vars(LateSettle(h) /\ Others)
       /\ WF_vars(RetryTimerFire(h) /\ Others)

SpecProgress == InitLoc /\ [][NextProgress]_vars /\ FairProgress

\* C32: in a started queue that is never paused or stopped, whose
\* executions all settle or time out, every added task is eventually
\* COMPLETED or FAILED
C32_Progress ==
  \A h \in Handles :
    (task[h].status # "new") ~> (task[h].status \in {"completed", "failed"})

\* ---------------------------------------------------------------------
\* C33: the dead-letter queue of a TaskQueue keeps the failed tasks
\* ---------------------------------------------------------------------

\* the same queue with no assumption on its scheduling; no retryFailed and
\* no clear call is made
SpecDead == InitLoc /\ [][NextProgress]_vars

\* the tasks that have reached FAILED
FailedHandles == {h \in Handles : task[h].status = "failed"}

\* C33: with enableDeadLetter, and no retryFailed or clear call, every
\* task that has reached FAILED is in the dead-letter queue, and the
\* dead-letter count is the number of FAILED tasks
C33_DeadLetterRetention ==
  config.enableDeadLetter =>
    /\ \A h \in FailedHandles : \E i \in 1..Len(deadLetter) : deadLetter[i].obj = h
    /\ Len(deadLetter) = Cardinality(FailedHandles)

\* ---------------------------------------------------------------------
\* C34: the number of pending tasks
\* ---------------------------------------------------------------------

BoundConfigs ==
  [concurrency : {1}, maxQueueSize : {1, 2}, maxRetries : {2},
   enableDeadLetter : {TRUE}]

InitBound ==
  TQInit /\ config \in BoundConfigs /\ PQIdle /\ DLQIdle /\ MoreIdle

NextBound ==
  \/ \E batch \in Singles({NoId}, {NoPriority}) :
       Add(batch, MaxTasks) /\ Others
  \/ LoopWake /\ Others
  \/ \E h \in Handles : Resolve(h) /\ Others
  \/ \E h \in Handles : Reject(h) /\ Others
  \/ \E h \in Handles : RetryTimerFire(h) /\ Others
  \/ \E id \in AllIds : RetryFailed(id) /\ Others
  \/ RetryFailedAll /\ Others

SpecBound == InitBound /\ [][NextBound]_vars

C35_CloseEffect ==
  [][(cbState = "half_open" /\ cbState' = "closed" /\ cbEv'.kind = "success") =>
       /\ cbMetrics'.consecutiveFailures = 0
       /\ cbMetrics'.consecutiveSuccesses = 0
       /\ resetTimer']_vars

\* ---------------------------------------------------------------------
\* C36: leaving HALF_OPEN
\* ---------------------------------------------------------------------

\* calls, settlements and the two timers, without the public reset()
NextHalf ==
  \/ Execute /\ NoQueue
  \/ OnSuccess /\ NoQueue
  \/ OnFailure /\ NoQueue
  \/ HalfOpen /\ NoQueue
  \/ ScheduleReset /\ NoQueue

\* calls keep arriving, every admitted call settles (with either outcome),
\* and an armed timer of setTimeout fires
FairHalf ==
  /\ WF_vars(Execute /\ NoQueue)
  /\ WF_vars((OnSuccess \/ OnFailure) /\ NoQueue)
  /\ WF_vars(HalfOpen /\ NoQueue)
  /\ WF_vars(ScheduleReset /\ NoQueue)

SpecHalf == InitCB /\ [][NextHalf]_vars /\ FairHalf

\* C36: a HALF_OPEN breaker eventually moves to CLOSED or to OPEN, as long
\* as calls can still be made (MaxCbCalls calls have not been admitted yet)
C36_LeavesHalfOpen ==
  (cbState = "half_open") ~>
     (cbState \in {"closed", "open"} \/ cbCalls = MaxCbCalls)

\* ---------------------------------------------------------------------
\* C37: calls that settle in a HALF_OPEN period they were not admitted in
\* ---------------------------------------------------------------------

\* C37: a settlement that changes the state of a HALF_OPEN breaker or its
\* count of consecutive successes belongs to a call admitted in this
\* HALF_OPEN period: the settlements counted in the period, this one
\* included, are never more than the calls admitted in it
C37_OnlyCurrentCalls ==
  [][(/\ cbState = "half_open"
      /\ cbEv'.kind \in {"success", "failure"}
      /\ \/ cbState' # cbState
         \/ cbMetrics'.consecutiveSuccesses # cbMetrics.consecutiveSuccesses)
       => cbHalfRun + 1 <= cbAdmitted]_vars

\* ---------------------------------------------------------------------
\* C38: progress of the callers queued in the leaky bucket
\* ---------------------------------------------------------------------

\* the interval of startBucketLeak keeps firing as time passes
FairLeak == WF_vars((\E d \in AdvanceSteps : RLAdvance(d)) /\ NoRL)

SpecLeakFair == InitLeaky /\ [][NextLeaky]_vars /\ FairLeak

NextSettle ==
  \/ \E priority \in CmPriorities : CmExecute(priority) /\ NoCM
  \/ \E id \in 1..MaxCmTasks, outcome \in CmOutcomes :
       CmSettle(id, outcome) /\ NoCM
  \/ EvaluateAndScale /\ NoCM
  \/ CmTick /\ NoCM
  \/ \E value \in CmValues : SetConcurrency(value) /\ NoCM
  \/ CmClear /\ NoCM

\* the body of every task that was started settles or times out
FairSettle ==
  \A id \in 1..MaxCmTasks :
    WF_vars((\E outcome \in CmOutcomes : CmSettle(id, outcome)) /\ NoCM)

SpecSettle == InitCM /\ [][NextSettle]_vars /\ FairSettle

\* C39: the promise of every execute() call is eventually settled
C39_EverySettles ==
  \A id \in 1..MaxCmTasks :
    (cmTask[id].st # "none") ~> (cmTask[id].st = "settled")

\* ---------------------------------------------------------------------
\* C40: pause()
\* ---------------------------------------------------------------------

\* calls, settlements, pause() and resume()
NextCmPause ==
  \/ \E priority \in CmPriorities : CmExecute(priority) /\ NoCM
  \/ \E id \in 1..MaxCmTasks, outcome \in CmOutcomes :
       CmSettle(id, outcome) /\ NoCM
  \/ CmPause /\ NoCM
  \/ CmResume /\ NoCM

SpecCmPause == InitCM /\ [][NextCmPause]_vars

\* C40: once pause() has returned no task waiting in the queue is started
\* before resume() is called; stated for the step that follows pause()
C40_PauseHolds ==
  [][(cmEv.kind = "pause" /\ cmEv'.kind # "resume") =>
       \A id \in 1..MaxCmTasks :
         ~(cmTask[id].st = "queued" /\ cmTask'[id].st = "active")]_vars
================================================================
